---- MODULE Spec2Model ----
(***************************************************************************)
(* Pipeline Manager (luizhcz/pipeline-automation, Next.js client).         *)
(*                                                                         *)
(* Eleven state machines over one set of variables:                        *)
(*   Spec        the pipeline catalog store (context/pipeline-store) under *)
(*               any consumer of its four operations;                      *)
(*   SpecPages   the store as driven by the pipeline pages of the          *)
(*               repository, with the remote /pipelines API;               *)
(*   SpecMonitor the Execution Monitor page (polling, pagination,          *)
(*               download availability) against the remote task list;      *)
(*   SpecFetch   fetchExecutions as a pure function of the GET /tasks      *)
(*               response, the filters and the page;                       *)
(*   SpecOverlap the Execution Monitor started with two fetches of the     *)
(*               task list in flight;                                      *)
(*   SpecTeardown the Execution Monitor with its unmount and remount;       *)
(*   SpecMock    the mock execution simulator of lib/mock-data;             *)
(*   SpecValidate the execution form's validation and coercion of one      *)
(*               parameter value, as functions of its type and raw value;  *)
(*   SpecForm    the Execute Pipeline page with its form and POST /submit, *)
(*               and the new-pipeline and edit-pipeline forms;             *)
(*   SpecFormLive SpecForm with requests that are eventually answered;     *)
(*   SpecStrict  the store with its effects mounted twice (StrictMode).    *)
(* Each specification leaves the variables of the others unchanged.     *)
(***************************************************************************)
EXTENDS Integers, Sequences, FiniteSets, TLC

VARIABLES
    \* ---- catalog store (PipelineStoreProvider) ----
    pipelines,      \* useState<Pipeline[]>: the committed in-memory catalog
    updates,        \* setPipelinesState calls queued for the next render
    effects,        \* passive effects scheduled and not yet run, in order
    storage,        \* localStorage["pipelines"]
    crashed,        \* an error escaped an effect: React tore the tree down
    writeThrew,     \* localStorage.setItem threw in the last effect flush
    console,        \* kinds of message written with console.error
    preReload,      \* <<catalog>> held when the page was reloaded, else <<>>
    \* ---- pipeline pages and remote API ----
    server,         \* the remote system's pipeline records
    apiCalls,       \* number of requests issued to the remote API
    pendingGet,     \* GET /pipelines responses in flight
    route,          \* the page that is mounted
    selected,       \* EditPipelineModal's pipeline prop: <<>> or <<p>>
    \* ---- execution monitor ----
    executions, totalExecutions, currentPage, filters, autoRefresh,
    timer,          \* the polling interval: <<>> or <<due time>>
    now,            \* Date.now(), ms after the page was opened
    tasks,          \* the remote system's task list
    pendingFetch,   \* GET /tasks requests in flight with their closure
    renderedAt,     \* Date.now() when MonitorExecutions last rendered
    countdown,      \* CountdownTimer's last calculation: <<>> or <<time>>
    monLog,         \* the handler that ran in the last step and its request
    toasts,         \* number of notifications raised by the last step
    \* ---- fetchExecutions as a function ----
    fxData, fxFilters, fxPage, fxOut,
    \* ---- validation and coercion of one parameter value ----
    pvType,         \* the declared type of the parameter
    pvEntry,        \* its entry in the values map: <<>> or <<string>>
    pvOut,          \* <<>> or <<the error recorded and the value submitted>>
    \* ---- ExecutePipeline, ExecutionForm and the pipeline forms ----
    selectedPipelineId, \* ExecutePipeline: <<>> (null) or <<id>>
    values,         \* ExecutionForm: raw value by parameter key
    errors,         \* ExecutionForm: error message by parameter key
    isExecuting,    \* ExecutionForm: a submission is under way
    result,         \* ExecutionForm: <<>> (null) or <<ExecutionResult>>
    pendingSubmit,  \* POST /submit requests in flight, oldest first
    formErrors,     \* NewPipeline / EditPipelineModal: error message by field
    formLog,        \* the handler that ran in the last step and its input
    \* ---- lib/mock-data ----
    mockExecutions, \* the module's list of mock executions
    mockNow         \* new Date() as the module reads it

storeVars == <<pipelines, updates, effects, storage, crashed, writeThrew, console,
               preReload>>
pageVars  == <<server, apiCalls, pendingGet, route, selected>>
monVars   == <<executions, totalExecutions, currentPage, filters, autoRefresh,
               timer, now, tasks, pendingFetch, renderedAt, countdown, monLog,
               toasts>>
fxVars    == <<fxData, fxFilters, fxPage, fxOut>>
pvVars    == <<pvType, pvEntry, pvOut>>
formVars  == <<selectedPipelineId, values, errors, isExecuting, result,
               pendingSubmit, formErrors, formLog>>
mockVars  == <<mockExecutions, mockNow>>
vars      == <<storeVars, pageVars, monVars, fxVars, pvVars, formVars, mockVars>>

(***************************************************************************)
(* Bounds of the model.                                                    *)
(***************************************************************************)
MaxCatalog  == 2      \* entries the catalog may hold
MaxApiCalls == 2      \* requests to /pipelines in one run
MaxServer   == 2      \* pipeline records on the server
MaxQueue    == 1      \* state updates queued before a render
MaxTasks    == 3      \* tasks in a GET /tasks response given to fetchExecutions
MaxNow      == 10000  \* ms the monitor page is followed for
MaxInFlight == 1      \* requests of the monitor in flight at once

(***************************************************************************)
(* JavaScript values that a pipeline's timestamp field can hold.           *)
(***************************************************************************)
Undef       == [kind |-> "undefined", t |-> 0]
NullV       == [kind |-> "null", t |-> 0]
InvalidDate == [kind |-> "invalid-date", t |-> 0]
DateV(t)    == [kind |-> "date", t |-> t]
IsoV(t)     == [kind |-> "iso-string", t |-> t]

\* new Date(v)
NewDate(v) ==
    CASE v.kind = "date"       -> v
      [] v.kind = "iso-string" -> DateV(v.t)
      [] v.kind = "null"       -> DateV(0)
      [] OTHER                 -> InvalidDate

\* What JSON.stringify writes for a property value: Date.prototype.toJSON
\* gives the ISO string, or null for an invalid date; an undefined property
\* is left out, so it reads back as undefined.
ToJSONValue(v) ==
    CASE v.kind = "date"         -> IsoV(v.t)
      [] v.kind = "invalid-date" -> NullV
      [] OTHER                   -> v


(***************************************************************************)
(* lib/execution-client: mapTaskToExecution and fetchExecutions.           *)
(* Text is a sequence of characters; a time is a number of milliseconds.   *)
(***************************************************************************)
DayMs    == 86400000
PageSize == 10

LowerChar(c) ==
    CASE c = "E" -> "e" [] c = "T" -> "t" [] c = "L" -> "l" [] c = "M" -> "m"
      [] OTHER -> c

\* String.prototype.toLowerCase
ToLowerCase(str) == [i \in 1..Len(str) |-> LowerChar(str[i])]

\* String.prototype.includes
Includes(str, sub) ==
    \E i \in 0..(Len(str) - Len(sub)) : SubSeq(str, i + 1, i + Len(sub)) = sub

Digit == <<"0", "1", "2", "3", "4", "5", "6", "7", "8", "9">>

\* request ids "r01", "r02", ... of the records of a response
RequestId(i) == <<"r", Digit[(i \div 10) + 1], Digit[(i % 10) + 1]>>

RawTask(rid, name, status, created, finished) ==
    [request_id |-> rid, notebook_name |-> name, version |-> <<"1">>,
     status |-> status, created_at |-> created, finished_at |-> finished]

\* raw.finished_at ? new Date(raw.finished_at) : null
Falsy(v) == v.kind \in {"null", "undefined"}

mapTaskToExecution(raw) ==
    [requestId    |-> raw.request_id,
     pipelineName |-> raw.notebook_name,
     version      |-> raw.version,
     status       |-> raw.status,
     createdAt    |-> NewDate(raw.created_at),
     finishedAt   |-> IF Falsy(raw.finished_at) THEN NullV
                      ELSE NewDate(raw.finished_at)]

Filter(search, status, dateFrom, dateTo) ==
    [search |-> search, status |-> status, dateFrom |-> dateFrom, dateTo |-> dateTo]

NoFilter == Filter(<<>>, "ALL", Undef, Undef)

\* end = new Date(filters.dateTo); end.setHours(23, 59, 59, 999)
EndOfDay(t) == (t \div DayMs) * DayMs + (DayMs - 1)

MatchesSearch(e, f) ==
    f.search = <<>> \/
    LET sub == ToLowerCase(f.search) IN
       \/ Includes(ToLowerCase(e.requestId), sub)
       \/ Includes(ToLowerCase(e.pipelineName), sub)
       \/ Includes(ToLowerCase(e.version), sub)

MatchesStatus(e, f) == f.status = "ALL" \/ e.status = f.status

MatchesFrom(e, f) == f.dateFrom.kind # "date" \/ e.createdAt.t >= f.dateFrom.t

MatchesTo(e, f) == f.dateTo.kind # "date" \/ e.createdAt.t <= EndOfDay(f.dateTo.t)

ApplyFilters(execs, f) ==
    LET Keep(e) == /\ MatchesSearch(e, f) /\ MatchesStatus(e, f)
                   /\ MatchesFrom(e, f) /\ MatchesTo(e, f)
    IN SelectSeq(execs, Keep)

\* The comparator of a sort that puts the oldest first
CompareAscending(a, b) == a.createdAt.t - b.createdAt.t

\* (a, b) => b.createdAt.getTime() - a.createdAt.getTime()
CompareCreated(a, b) == b.createdAt.t - a.createdAt.t

\* Array.prototype.sort is stable: x goes before the first element it
\* compares strictly below, behind every element it ties with
RECURSIVE InsertSorted(_, _)
InsertSorted(sorted, x) ==
    IF sorted = <<>> THEN <<x>>
    ELSE IF CompareCreated(x, Head(sorted)) < 0
         THEN <<x>> \o sorted
         ELSE <<Head(sorted)>> \o InsertSorted(Tail(sorted), x)

RECURSIVE SortExecutions(_)
SortExecutions(execs) ==
    IF execs = <<>> THEN <<>>
    ELSE InsertSorted(SortExecutions(SubSeq(execs, 1, Len(execs) - 1)),
                      execs[Len(execs)])

\* steps 2 to 4 of fetchExecutions: convert, filter, sort
FetchSorted(data, f) == SortExecutions(ApplyFilters([i \in 1..Len(data) |-> mapTaskToExecution(data[i])], f))

Min(a, b) == IF a < b THEN a ELSE b
Max(a, b) == IF a > b THEN a ELSE b

\* Array.prototype.slice(offset, offset + pageSize)
Slice(s, from, to) == SubSeq(s, Min(from, Len(s)) + 1, Min(to, Len(s)))

fetchExecutions(data, f, page, pageSize) ==
    LET all == FetchSorted(data, f) IN
    [executions |-> Slice(all, (page - 1) * pageSize, (page - 1) * pageSize + pageSize),
     total |-> Len(all)]

(***************************************************************************)
(* MonitorExecutions and CountdownTimer: what a render computes.           *)
(***************************************************************************)
ThreeHours        == 10800000     \* 3 * 60 * 60 * 1000
PollInterval      == 10000        \* setInterval(loadExecutions, 10_000)
CountdownInterval == 1000         \* setInterval(calculateTimeLeft, 1000)

isDownloadAvailableAnyStatus(execution, at) ==
    IF Falsy(execution.finishedAt) THEN FALSE
    ELSE at - execution.finishedAt.t <= ThreeHours

\* at is the value Date.now() returns when the function runs
isDownloadAvailable(execution, at) ==
    IF execution.status # "SUCCESS" \/ Falsy(execution.finishedAt) THEN FALSE
    ELSE at - execution.finishedAt.t <= ThreeHours

getExpiryDate(finishedAt) == DateV(finishedAt.t + ThreeHours)

\* Math.ceil(totalExecutions / pageSize)
TotalPages(total) == (total + PageSize - 1) \div PageSize

\* CountdownTimer: the text calculateTimeLeft sets
calculateTimeLeft(expiryDate, at) ==
    LET difference == expiryDate.t - at IN
    IF difference <= 0 THEN <<"Expirado">>
    ELSE <<difference \div 3600000, (difference % 3600000) \div 60000,
           (difference % 60000) \div 1000>>

\* Rows that mount a CountdownTimer in a render at time at
HasCountdown(list, at) ==
    \E i \in 1..Len(list) : isDownloadAvailable(list[i], at)

\* The timers' effect runs after every render of the page, because
\* getExpiryDate hands each of them a new Date object
CountdownAfterRender(list, at) == IF HasCountdown(list, at) THEN <<at>> ELSE <<>>

PollingEffectAlways(enabled, at) == <<at + PollInterval>>

\* The polling effect, run after a render whose dependencies changed
PollingEffect(enabled, at) == IF enabled THEN <<at + PollInterval>> ELSE <<>>

\* A cleanup of the polling effect that clears nothing
PollingCleanupNone(live) == live

\* The cleanup the polling effect returned, run before the effect runs again
\* and on unmount: clearInterval(id) on the interval its last run created
\* (a run that created none returned no cleanup).  live holds the due times
\* of the intervals that have not been cleared, the newest last.
PollingCleanup(live) == IF live = <<>> THEN <<>> ELSE SubSeq(live, 1, Len(live) - 1)

\* React re-running the polling effect after a render whose dependencies
\* changed: the cleanup of the last run, then the effect
RerunPollingEffect(live, enabled, at) == PollingCleanup(live) \o PollingEffect(enabled, at)

\* Requests in flight
TasksRequest(f, page) == [req |-> "tasks", filters |-> f, page |-> page, id |-> <<>>]
DownloadRequest(id)   == [req |-> "download", filters |-> NoFilter, page |-> 0, id |-> id]

\* The handler that ran in the last step, and for handleDownload the
\* execution it was called with and whether it issued the request
MonEvent(event) ==
    [event |-> event, issued |-> FALSE, status |-> "", finishedAt |-> NullV, id |-> <<>>]
DownloadEvent(execution, issued) ==
    [event |-> "download", issued |-> issued, status |-> execution.status,
     finishedAt |-> execution.finishedAt, id |-> execution.requestId]

(***************************************************************************)
(* Pipelines.  The declared type carries the timestamp as created_at; the  *)
(* store's load effect and fetchPipelines use createdAt.  A record holds   *)
(* both properties, Undef standing for a property the object lacks.        *)
(***************************************************************************)
Param(key, type) == [key |-> key, type |-> type, value |-> NullV]

Pipeline(id, name, ca, cA, params) ==
    [id |-> id, name |-> name, description |-> "",
     created_at |-> ca, createdAt |-> cA, parameters |-> params]

PipelineIds   == {"p1", "p2"}
PipelineNames == {"etl", "mlp"}

\* Pipelines a consumer can hand to addPipeline: typed as declared
\* (created_at: Date) or shaped as the rest of the store code expects.
DeclaredShape(id, name) == Pipeline(id, name, DateV(1), Undef, <<Param("rows", "int")>>)
StoreShape(id, name)    == Pipeline(id, name, Undef, DateV(1), <<Param("rows", "int")>>)

AddablePipelines ==
    {DeclaredShape(id, "etl") : id \in PipelineIds}
    \cup {StoreShape(id, "etl") : id \in PipelineIds}

StringifyPipeline(p) ==
    [p EXCEPT !.created_at = ToJSONValue(@), !.createdAt = ToJSONValue(@)]

\* JSON.stringify(pipelines) as the text kept in local storage
Stringify(ps) == [kind |-> "list", list |-> [i \in 1..Len(ps) |-> StringifyPipeline(ps[i])]]

Absent      == [kind |-> "absent", list |-> <<>>]
EmptyString == [kind |-> "empty", list |-> <<>>]
Corrupt(k)  == [kind |-> k, list |-> <<>>]
\* texts that JSON.parse rejects, or parses to something without .map
UnparseableKinds == {"invalid-json", "json-object", "json-null", "json-number"}

\* try { JSON.parse(stored).map(p => ({...p, createdAt: new Date(p.createdAt)})) }
WithDate(p) == [p EXCEPT !.createdAt = NewDate(@)]

ParseStored(s) ==
    IF s.kind = "list"
    THEN [ok |-> TRUE, list |-> [i \in 1..Len(s.list) |-> WithDate(s.list[i])]]
    ELSE [ok |-> FALSE, list |-> <<>>]

(***************************************************************************)
(* State updaters of the store.                                            *)
(***************************************************************************)
\* The updaters with an update that adds the pipeline when its id is absent
ApplyUpdateUpsert(u, prev) ==
    CASE u.op = "add"    -> Append(prev, u.p)
      [] u.op = "update" -> IF \E i \in 1..Len(prev) : prev[i].id = u.p.id
                            THEN [i \in 1..Len(prev) |->
                                    IF prev[i].id = u.p.id THEN u.p ELSE prev[i]]
                            ELSE Append(prev, u.p)
      [] u.op = "delete" -> LET Keep(q) == q.id # u.p.id IN SelectSeq(prev, Keep)
      [] OTHER           -> u.list

\* The updaters with a set that keeps the entries whose id the list lacks
ApplyUpdateMerge(u, prev) ==
    CASE u.op = "add"    -> Append(prev, u.p)
      [] u.op = "update" -> [i \in 1..Len(prev) |->
                               IF prev[i].id = u.p.id THEN u.p ELSE prev[i]]
      [] u.op = "delete" -> LET Keep(q) == q.id # u.p.id IN SelectSeq(prev, Keep)
      [] OTHER           -> LET Local(q) == \A i \in 1..Len(u.list) : u.list[i].id # q.id
                            IN  u.list \o SelectSeq(prev, Local)

ApplyUpdate(u, prev) ==
    CASE u.op = "add"    -> Append(prev, u.p)
      [] u.op = "update" -> [i \in 1..Len(prev) |->
                               IF prev[i].id = u.p.id THEN u.p ELSE prev[i]]
      [] u.op = "delete" -> LET Keep(q) == q.id # u.p.id IN SelectSeq(prev, Keep)
      [] OTHER           -> u.list

RECURSIVE ApplyAll(_, _)
ApplyAll(us, prev) ==
    IF us = <<>> THEN prev ELSE ApplyAll(Tail(us), ApplyUpdate(Head(us), prev))

NoPipeline == Pipeline("", "", Undef, Undef, <<>>)
Update(op, p, list, from) == [op |-> op, p |-> p, list |-> list, from |-> from]

Alive == ~crashed

(***************************************************************************)
(* PipelineStoreProvider: the two effects, as transformers of what an      *)
(* effect can touch, and the flush that runs the scheduled effects.        *)
(***************************************************************************)
EffectState == [updates |-> updates, console |-> console, storage |-> storage,
                crashed |-> crashed, writeThrew |-> FALSE]

\* useEffect(() => {...}, []): load pipelines from localStorage on mount
LoadEffectNoCatch(st) ==
    IF st.storage.kind \in {"absent", "empty"} THEN st
    ELSE IF ParseStored(st.storage).ok
         THEN [st EXCEPT !.updates = Append(@,
                   Update("set", NoPipeline, ParseStored(st.storage).list, "load"))]
         ELSE [st EXCEPT !.crashed = TRUE]

LoadEffect(st) ==
    IF st.storage.kind \in {"absent", "empty"} THEN st
    ELSE IF ParseStored(st.storage).ok
         THEN [st EXCEPT !.updates = Append(@,
                   Update("set", NoPipeline, ParseStored(st.storage).list, "load"))]
         ELSE [st EXCEPT !.console = @ \cup {"Error parsing stored pipelines"}]

\* A write that stores only the entry a mutation touched last
SaveEffectPartial(st, ps, quotaOk) ==
    IF quotaOk
    THEN [st EXCEPT !.storage = Stringify(IF ps = <<>> THEN ps ELSE <<ps[Len(ps)]>>)]
    ELSE [st EXCEPT !.crashed = TRUE, !.writeThrew = TRUE]

\* useEffect(() => localStorage.setItem("pipelines", JSON.stringify(pipelines)),
\* [pipelines]); setItem throws when the quota is exceeded and nothing catches it
SaveEffect(st, ps, quotaOk) ==
    IF quotaOk
    THEN [st EXCEPT !.storage = Stringify(ps)]
    ELSE [st EXCEPT !.crashed = TRUE, !.writeThrew = TRUE]

RECURSIVE RunEffects(_, _, _, _)
RunEffects(effs, st, ps, quotaOk) ==
    IF effs = <<>> \/ st.crashed THEN st
    ELSE RunEffects(Tail(effs),
                    IF Head(effs) = "load" THEN LoadEffect(st)
                    ELSE SaveEffect(st, ps, quotaOk),
                    ps, quotaOk)

\* React flushes the passive effects of the last commit, in order, in one go
FlushEffects ==
    /\ Alive /\ effects # <<>>
    /\ \E quotaOk \in BOOLEAN :
          LET st == RunEffects(effects, EffectState, pipelines, quotaOk) IN
          /\ updates' = st.updates
          /\ console' = st.console
          /\ storage' = st.storage
          /\ crashed' = st.crashed
          /\ writeThrew' = st.writeThrew
    /\ effects' = <<>>
    /\ UNCHANGED <<pipelines, preReload>>

\* React renders the provider with the queued updaters applied in order and
\* commits; the new array identity schedules the save effect
Render ==
    /\ Alive /\ updates # <<>> /\ effects = <<>>
    /\ pipelines' = ApplyAll(updates, pipelines)
    /\ updates' = <<>>
    /\ effects' = <<"save">>
    /\ UNCHANGED <<storage, crashed, writeThrew, console, preReload>>

Mounted == \A i \in 1..Len(effects) : effects[i] # "load"

\* setPipelinesState(updater) called by a consumer of the context
Enqueue(u) ==
    /\ Alive /\ Mounted /\ Len(updates) < MaxQueue
    /\ Len(ApplyUpdate(u, ApplyAll(updates, pipelines))) <= MaxCatalog
    /\ updates' = Append(updates, u)
    /\ preReload' = <<>>
    /\ UNCHANGED <<pipelines, effects, storage, crashed, writeThrew, console>>

addPipeline(p)    == Enqueue(Update("add", p, <<>>, "ui"))
updatePipeline(p) == Enqueue(Update("update", p, <<>>, "ui"))
deletePipeline(p) == Enqueue(Update("delete", p, <<>>, "ui"))
setPipelines(ps)  == Enqueue(Update("set", NoPipeline, ps, "ui"))

Quiescent == Alive /\ updates = <<>> /\ effects = <<>>

\* The browser reloads the page: a fresh provider mounts over the same storage
Reload ==
    /\ pipelines' = <<>>
    /\ updates' = <<>>
    /\ effects' = <<"load", "save">>
    /\ crashed' = FALSE
    /\ writeThrew' = FALSE
    /\ console' = {}
    /\ preReload' = IF Quiescent THEN <<pipelines>> ELSE <<>>
    /\ UNCHANGED storage

(***************************************************************************)
(* Consumers of the store in Spec: any call of the four operations.        *)
(***************************************************************************)
Renamed(p) == [p EXCEPT !.name = "ml"]

FetchedLists ==
    {<<>>, <<StoreShape("p1", "etl")>>, <<StoreShape("p2", "etl"), StoreShape("p1", "ml")>>}

CallAdd    == \E p \in AddablePipelines : addPipeline(p)
CallUpdate == \E p \in AddablePipelines : updatePipeline(Renamed(p))
CallDelete == \E id \in PipelineIds : deletePipeline(StoreShape(id, "etl"))
CallSet    == \E ps \in FetchedLists : setPipelines(ps)

\* What an earlier session can have left under the key, or a damaged value
InitialStorage ==
    {Absent, EmptyString, Stringify(<<StoreShape("p1", "etl")>>)}
    \cup {Corrupt(k) : k \in UnparseableKinds}

StoreInit ==
    /\ pipelines = <<>>
    /\ updates = <<>>
    /\ effects = <<"load", "save">>
    /\ storage \in InitialStorage
    /\ crashed = FALSE
    /\ writeThrew = FALSE
    /\ console = {}
    /\ preReload = <<>>

\* The store as it stands while the state machine at hand leaves it alone
StoreIdle ==
    /\ pipelines = <<>> /\ updates = <<>> /\ effects = <<>> /\ storage = Absent
    /\ crashed = FALSE /\ writeThrew = FALSE /\ console = {} /\ preReload = <<>>

PagesIdle ==
    /\ server = <<>> /\ apiCalls = 0 /\ pendingGet = {} /\ route = "home"
    /\ selected = <<>>

MonIdle ==
    /\ executions = <<>> /\ totalExecutions = 0 /\ currentPage = 1
    /\ filters = NoFilter /\ autoRefresh = TRUE /\ timer = <<>> /\ now = 0
    /\ tasks = <<>> /\ pendingFetch = {} /\ renderedAt = 0 /\ countdown = <<>>
    /\ monLog = MonEvent("none") /\ toasts = 0

FxIdle ==
    /\ fxData = <<>> /\ fxFilters = NoFilter /\ fxPage = 1 /\ fxOut = <<>>

PvIdle == pvType = "string" /\ pvEntry = <<>> /\ pvOut = <<>>

NoForm     == [name |-> "", description |-> "", parameters |-> <<>>]
NoRequest  == [notebook |-> "", body |-> <<>>]
NoResponse == [status |-> "none", json |-> FALSE, request_ids |-> <<>>,
               detail |-> "absent", msg |-> ""]

\* What a handler of the forms did: its name, whether validation passed, and
\* the form, request and response it worked on
FormEvent(event, valid, form, request, response) ==
    [event |-> event, valid |-> valid, form |-> form, request |-> request,
     response |-> response]

Quiet == FormEvent("none", TRUE, NoForm, NoRequest, NoResponse)

FormIdle ==
    /\ selectedPipelineId = <<>> /\ values = <<>> /\ errors = <<>>
    /\ isExecuting = FALSE /\ result = <<>> /\ pendingSubmit = <<>>
    /\ formErrors = <<>> /\ formLog = Quiet

MockIdle == mockExecutions = <<>> /\ mockNow = 0

Init == StoreInit /\ PagesIdle /\ MonIdle /\ FxIdle /\ PvIdle /\ FormIdle /\ MockIdle

Next ==
    \/ (FlushEffects /\ UNCHANGED <<pageVars, monVars, fxVars, pvVars, formVars, mockVars>>)
    \/ (Render /\ UNCHANGED <<pageVars, monVars, fxVars, pvVars, formVars, mockVars>>)
    \/ (CallAdd /\ UNCHANGED <<pageVars, monVars, fxVars, pvVars, formVars, mockVars>>)
    \/ (CallUpdate /\ UNCHANGED <<pageVars, monVars, fxVars, pvVars, formVars, mockVars>>)
    \/ (CallDelete /\ UNCHANGED <<pageVars, monVars, fxVars, pvVars, formVars, mockVars>>)
    \/ (CallSet /\ UNCHANGED <<pageVars, monVars, fxVars, pvVars, formVars, mockVars>>)
    \/ (Reload /\ UNCHANGED <<pageVars, monVars, fxVars, pvVars, formVars, mockVars>>)

Spec == Init /\ [][Next]_vars

(***************************************************************************)
(* Claims about the store.                                                 *)
(***************************************************************************)
\* C2: after add(p), the persistence write and a fresh initialisation of the
\* store from the persisted snapshot, the catalog contains p with every field
\* identical (id, name, description, the timestamp as a date under the same
\* field name, parameters).
C2_RoundTrip ==
    (preReload # <<>> /\ Quiescent) =>
        \A i \in 1..Len(preReload[1]) :
            preReload[1][i] \in AddablePipelines =>
                \E j \in 1..Len(pipelines) : pipelines[j] = preReload[1][i]

\* C4 as stated: a mutation applied to the in-memory catalog is in the
\* persisted snapshot in the same step (the write is synchronous).
C4_WriteSynchronous ==
    [][(pipelines' # pipelines /\ effects' = <<"save">>)
          => storage' = Stringify(pipelines')]_vars

\* The persisted snapshot is not the serialization of the in-memory catalog
C4_Stale == storage # Stringify(pipelines)

\* C4 as amended: every write to the key stores the serialization of the
\* whole in-memory catalog, and the snapshot differs from the in-memory
\* catalog only while an effect flush is pending or after a write threw.
C4_WholeCatalogDeferred ==
    /\ [](C4_Stale => (effects # <<>> \/ crashed))
    /\ [][storage' # storage => storage' = Stringify(pipelines)]_vars

\* Two mutations later the snapshot holds both entries
C4_Witness ==
    /\ Quiescent /\ Len(pipelines) = 2 /\ storage = Stringify(pipelines)
    /\ preReload = <<>>

\* C5: when the local-storage write fails the store raises nothing to its
\* consumers and stays usable.
C5_WriteFailureSwallowed == writeThrew => ~crashed

(***************************************************************************)
(* The remote system's pipeline records and the pages that use the store:  *)
(* MyPipelines, NewPipeline and EditPipelineModal.                         *)
(***************************************************************************)
ServerParam(name, type) == [name |-> name, type |-> type, value |-> NullV]

ServerPipeline(id, name) ==
    [id |-> id, name |-> name, description |-> "",
     created_at |-> IsoV(1), parameters |-> <<ServerParam("rows", "int")>>]

\* fetchPipelines: data.map(item => ({id, name, description, createdAt, parameters}))
MapServerParam(q) == [key |-> q.name, type |-> q.type, value |-> q.value]

MapServerPipeline(item) ==
    Pipeline(item.id, item.name, Undef, NewDate(item.created_at),
             [i \in 1..Len(item.parameters) |-> MapServerParam(item.parameters[i])])

ServerIds == {server[i].id : i \in 1..Len(server)}

\* fetchPipelines up to its await: one GET /pipelines, answered from the
\* records the server holds, or failing
GetPipelines(srv) ==
    \E ok \in BOOLEAN :
       pendingGet' = pendingGet \cup {[ok |-> ok, data |-> IF ok THEN srv ELSE <<>>]}

\* The user opens a page; mounting MyPipelines runs its effect (fetchPipelines)
Navigate ==
    /\ Alive /\ Mounted
    /\ \E r \in {"my-pipelines", "new-pipeline"} :
          /\ route # r
          /\ route' = r
          /\ IF r = "my-pipelines"
             THEN /\ apiCalls < MaxApiCalls
                  /\ apiCalls' = apiCalls + 1
                  /\ GetPipelines(server)
             ELSE UNCHANGED <<apiCalls, pendingGet>>
    /\ selected' = <<>>
    /\ UNCHANGED <<storeVars, server>>

\* fetchPipelines after the await: setPipelines(mapped), or console.error
ResolveGet ==
    /\ Alive /\ Mounted
    /\ \E r \in pendingGet :
          /\ pendingGet' = pendingGet \ {r}
          /\ IF r.ok
             THEN setPipelines([i \in 1..Len(r.data) |-> MapServerPipeline(r.data[i])])
             ELSE /\ console' = console \cup {"Erro ao buscar pipelines"}
                  /\ UNCHANGED <<pipelines, updates, effects, storage, crashed,
                                 writeThrew, preReload>>
    /\ UNCHANGED <<server, apiCalls, route, selected>>

\* NewPipeline.handleSubmit with a form that passes validateForm: POST
\* /pipelines; on success toast, resetForm and router.push("/my-pipelines"),
\* whose mount fetches the list
HandleSubmit ==
    /\ Alive /\ Mounted /\ route = "new-pipeline"
    /\ apiCalls + 2 <= MaxApiCalls
    /\ \E name \in PipelineNames, ok \in BOOLEAN :
          IF ok /\ Len(server) < MaxServer
          THEN \E id \in PipelineIds \ ServerIds :
                  /\ server' = Append(server, ServerPipeline(id, name))
                  /\ apiCalls' = apiCalls + 2
                  /\ GetPipelines(server')
                  /\ route' = "my-pipelines"
          ELSE /\ apiCalls' = apiCalls + 1
               /\ UNCHANGED <<server, pendingGet, route>>
    /\ UNCHANGED <<storeVars, selected>>

\* MyPipelines.handlePipelineClick: the modal mounts with the clicked pipeline
HandlePipelineClick ==
    /\ Alive /\ Mounted /\ route = "my-pipelines" /\ selected = <<>>
    /\ \E i \in 1..Len(pipelines) : selected' = <<pipelines[i]>>
    /\ UNCHANGED <<storeVars, server, apiCalls, pendingGet, route>>

\* parameters.map(param => ({...param, value: null}))
NullValue(q) == [q EXCEPT !.value = NullV]

\* EditPipelineModal.handleSave with a form that passes validateForm
HandleSave ==
    /\ selected # <<>>
    /\ \E name \in PipelineNames :
          updatePipeline([selected[1] EXCEPT !.name = name,
                                            !.parameters = [i \in 1..Len(@) |-> NullValue(@[i])]])
    /\ selected' = <<>>
    /\ UNCHANGED <<server, apiCalls, pendingGet, route>>

\* EditPipelineModal.handleDelete
HandleDelete ==
    /\ selected # <<>>
    /\ deletePipeline(selected[1])
    /\ selected' = <<>>
    /\ UNCHANGED <<server, apiCalls, pendingGet, route>>

\* A reload drops the pages' state with the provider's; responses in flight
\* are lost with the document
ReloadPages ==
    /\ Reload
    /\ pendingGet' = {}
    /\ route' = "home"
    /\ selected' = <<>>
    /\ UNCHANGED <<server, apiCalls>>

InitialServers == {<<>>, <<ServerPipeline("p1", "etl")>>}

PagesInit ==
    /\ server \in InitialServers
    /\ apiCalls = 0
    /\ pendingGet = {}
    /\ route = "home"
    /\ selected = <<>>

InitPages == StoreInit /\ PagesInit /\ MonIdle /\ FxIdle /\ PvIdle /\ FormIdle /\ MockIdle

\* A step of the pages raising n notifications (toast) and leaving the
\* monitor page alone
Notifying(step, n) ==
    /\ step
    /\ toasts' = n
    /\ UNCHANGED <<executions, totalExecutions, currentPage, filters, autoRefresh,
                   timer, now, tasks, pendingFetch, renderedAt, countdown, monLog>>

NextPages ==
    \/ (Notifying(FlushEffects /\ UNCHANGED pageVars, 0) /\ UNCHANGED <<fxVars, pvVars, formVars, mockVars>>)
    \/ (Notifying(Render /\ UNCHANGED pageVars, 0) /\ UNCHANGED <<fxVars, pvVars, formVars, mockVars>>)
    \/ (Notifying(ReloadPages, 0) /\ UNCHANGED <<fxVars, pvVars, formVars, mockVars>>)
    \/ (Notifying(Navigate, 0) /\ UNCHANGED <<fxVars, pvVars, formVars, mockVars>>)
    \/ (Notifying(ResolveGet, 0) /\ UNCHANGED <<fxVars, pvVars, formVars, mockVars>>)
    \/ (Notifying(HandleSubmit, 1) /\ UNCHANGED <<fxVars, pvVars, formVars, mockVars>>)
    \/ (Notifying(HandlePipelineClick, 0) /\ UNCHANGED <<fxVars, pvVars, formVars, mockVars>>)
    \/ (Notifying(HandleSave, 1) /\ UNCHANGED <<fxVars, pvVars, formVars, mockVars>>)
    \/ (Notifying(HandleDelete, 1) /\ UNCHANGED <<fxVars, pvVars, formVars, mockVars>>)

SpecPages == InitPages /\ [][NextPages]_vars

(***************************************************************************)
(* Claims about the pages and the remote API.                              *)
(***************************************************************************)
\* The modal's save or delete button ran: the modal closes with an update
\* of the catalog queued
C3_EditOrDeleteStep ==
    selected # <<>> /\ selected' = <<>> /\ Len(updates') > Len(updates)

\* A create succeeded: the server holds one more record
C3_CreatedStep == Len(server') > Len(server)

\* C3: every create, edit and delete made in the UI issues a request to the
\* remote API and is mirrored into the local catalog: a successful create
\* leaves the new pipeline in the catalog, an edit or delete reaches the
\* server.
C3_MirroredToApi ==
    [][/\ C3_EditOrDeleteStep => apiCalls' > apiCalls
       /\ C3_CreatedStep =>
             \E i \in 1..Len(pipelines') :
                 pipelines'[i].id = server'[Len(server')].id]_vars

\* The mount's effects run over a snapshot that is no pipeline list
C6_LoadStep ==
    /\ effects # <<>> /\ Head(effects) = "load" /\ effects' = <<>>
    /\ storage.kind \in UnparseableKinds

\* C6: when the persisted snapshot cannot be parsed into a pipeline list
\* (invalid JSON, or JSON that is no list), the load leaves the catalog
\* empty, the parse raises no error (it is logged; the only error the step
\* can raise is that of a failing write, C5) and no request is sent to the
\* remote API.
C6_CorruptSnapshotStartsEmpty ==
    [][C6_LoadStep =>
          /\ pipelines' = <<>> /\ updates' = <<>>
          /\ (crashed' => writeThrew')
          /\ "Error parsing stored pipelines" \in console'
          /\ apiCalls' = apiCalls /\ pendingGet' = pendingGet
          /\ server' = server]_vars

\* A store that started from an unparseable snapshot: empty, alive, the
\* failure logged
C6_Witness ==
    /\ "Error parsing stored pipelines" \in console
    /\ Alive /\ pipelines = <<>> /\ updates = <<>> /\ effects = <<>>
    /\ storage = Stringify(<<>>)

(***************************************************************************)
(* SpecFetch: fetchExecutions applied to bounded GET /tasks responses.     *)
(***************************************************************************)
EtlName == <<"E", "T", "L">>
MlName  == <<"m", "l">>

\* (name, status, created_at, finished_at) of the tasks a response may hold
TaskKinds ==
    {<<EtlName, "SUCCESS", 1000, IsoV(5000)>>,
     <<MlName,  "SUCCESS", 2000, IsoV(3000)>>,
     <<MlName,  "SUCCESS", 2000, IsoV(5000)>>,
     <<EtlName, "PENDING", 3000, NullV>>,
     <<MlName,  "STARTED", 1000, NullV>>,
     <<EtlName, "FAILURE", DayMs + 1000, IsoV(DayMs + 2000)>>}

\* The response's i-th record; request ids differ from record to record
TaskOf(i, k) == RawTask(RequestId(i), k[1], k[2], IsoV(k[3]), k[4])

Responses ==
    UNION {{[i \in 1..n |-> TaskOf(i, ks[i])] : ks \in [1..n -> TaskKinds]} : n \in 0..MaxTasks}

FilterChoices ==
    {NoFilter,
     Filter(<<"e", "t">>, "ALL", Undef, Undef),
     Filter(<<>>, "SUCCESS", Undef, Undef),
     Filter(<<>>, "ALL", DateV(2000), Undef),
     Filter(<<>>, "ALL", Undef, DateV(500))}

FxInit ==
    /\ fxData \in Responses
    /\ fxFilters = NoFilter
    /\ fxPage = 1
    /\ fxOut = <<>>

\* The caller picks the filters and the page for the next call
FxChoose ==
    /\ fxOut = <<>> /\ fxFilters = NoFilter /\ fxPage = 1
    /\ \E f \in FilterChoices, pg \in {1, 2} :
          /\ <<f, pg>> # <<NoFilter, 1>>
          /\ fxFilters' = f /\ fxPage' = pg
    /\ UNCHANGED <<fxData, fxOut>>

\* The response arrives and fetchExecutions returns
FxFetch ==
    /\ fxOut = <<>>
    /\ fxOut' = <<fetchExecutions(fxData, fxFilters, fxPage, PageSize)>>
    /\ UNCHANGED <<fxData, fxFilters, fxPage>>

InitFetch == StoreIdle /\ PagesIdle /\ MonIdle /\ FxInit /\ PvIdle /\ FormIdle /\ MockIdle

NextFetch ==
    \/ (FxChoose /\ UNCHANGED <<storeVars, pageVars, monVars, pvVars, formVars, mockVars>>)
    \/ (FxFetch /\ UNCHANGED <<storeVars, pageVars, monVars, pvVars, formVars, mockVars>>)

SpecFetch == InitFetch /\ [][NextFetch]_vars

\* The list before pagination, and where a task stood in the response
FxList == FetchSorted(fxData, fxFilters)

FxPosition(e) == CHOOSE i \in 1..Len(fxData) : fxData[i].request_id = e.requestId

FxReturned == fxOut # <<>>

MonTask(i) ==
    LET created == IsoV(0 - 2 * ThreeHours - i * 1000)
        name == IF i % 2 = 1 THEN EtlName ELSE MlName IN
    CASE i = 1 -> RawTask(RequestId(i), name, "SUCCESS", created, IsoV(60000 - ThreeHours))
      [] i = 2 -> RawTask(RequestId(i), name, "SUCCESS", created, IsoV(0 - 60000 - ThreeHours))
      [] i = 3 -> RawTask(RequestId(i), name, "SUCCESS", created, IsoV(2000 - ThreeHours))
      [] i = 4 -> RawTask(RequestId(i), name, "FAILURE", created, IsoV(0 - 1000))
      [] i = 5 -> RawTask(RequestId(i), name, "STARTED", created, NullV)
      [] OTHER -> RawTask(RequestId(i), name, "PENDING", created, NullV)

TaskList(n) == [i \in 1..n |-> MonTask(i)]

TaskLists == {TaskList(0), TaskList(4), TaskList(12)}

StatusChoices == {"ALL", "SUCCESS"}

\* Moments at which the user or the server may act, besides the moments a
\* timer is due
TimePoints == {1000, 2000, 3000}

CanRequest(r) == Cardinality(pendingFetch \cup {r}) <= MaxInFlight

\* The page after its first render and its two effects
MonInit ==
    /\ executions = <<>> /\ totalExecutions = 0 /\ currentPage = 1
    /\ filters = NoFilter /\ autoRefresh = TRUE
    /\ now = 0
    /\ tasks \in TaskLists
    /\ pendingFetch = {TasksRequest(NoFilter, 1)}
    /\ timer = PollingEffect(TRUE, 0)
    /\ renderedAt = 0 /\ countdown = <<>>
    /\ monLog = MonEvent("mount") /\ toasts = 0

\* Time passes, never beyond the next due timer
Advance ==
    \E t \in TimePoints \cup {timer[i] : i \in 1..Len(timer)}
              \cup {countdown[i] + CountdownInterval : i \in 1..Len(countdown)} :
       /\ now < t /\ t <= MaxNow
       /\ timer # <<>> => t <= timer[1]
       /\ countdown # <<>> => t <= countdown[1] + CountdownInterval
       /\ now' = t
       /\ monLog' = MonEvent("none") /\ toasts' = 0
       /\ UNCHANGED <<executions, totalExecutions, currentPage, filters, autoRefresh,
                      timer, tasks, pendingFetch, renderedAt, countdown>>

\* The remote system's task list changes
ServerChange ==
    /\ \E ts \in TaskLists \ {tasks} : tasks' = ts
    /\ monLog' = MonEvent("none") /\ toasts' = 0
    /\ UNCHANGED <<executions, totalExecutions, currentPage, filters, autoRefresh,
                   timer, now, pendingFetch, renderedAt, countdown>>

\* The polling interval fires: loadExecutions of the render that set it
TimerFire ==
    /\ timer # <<>> /\ now = timer[1]
    /\ CanRequest(TasksRequest(filters, currentPage))
    /\ pendingFetch' = pendingFetch \cup {TasksRequest(filters, currentPage)}
    /\ timer' = <<now + PollInterval>>
    /\ monLog' = MonEvent("timer") /\ toasts' = 0
    /\ UNCHANGED <<executions, totalExecutions, currentPage, filters, autoRefresh,
                   now, tasks, renderedAt, countdown>>

\* A CountdownTimer's interval fires
CountdownTick ==
    /\ countdown # <<>> /\ now = countdown[1] + CountdownInterval
    /\ countdown' = <<now>>
    /\ monLog' = MonEvent("none") /\ toasts' = 0
    /\ UNCHANGED <<executions, totalExecutions, currentPage, filters, autoRefresh,
                   timer, now, tasks, pendingFetch, renderedAt>>
(***************************************************************************)
(* MonitorExecutions: event handlers, each with the render and the effects *)
(* its state updates cause.                                                *)
(***************************************************************************)
\* A render of the page at the current time showing list
Rendered(list) ==
    /\ renderedAt' = now
    /\ countdown' = CountdownAfterRender(list, now)

\* useToast is not part of the sources: raising a notification may or may
\* not render the page again
NotifiedRender ==
    \/ Rendered(executions)
    \/ UNCHANGED <<renderedAt, countdown>>

\* setCurrentPage / setFilters committed: both effects run again
PageOrFiltersChanged(f, page) ==
    /\ CanRequest(TasksRequest(f, page))
    /\ filters' = f
    /\ currentPage' = page
    /\ pendingFetch' = pendingFetch \cup {TasksRequest(f, page)}
    /\ timer' = RerunPollingEffect(timer, autoRefresh, now)
    /\ Rendered(executions)
    /\ toasts' = 0
    /\ UNCHANGED <<executions, totalExecutions, autoRefresh, now, tasks>>

ClickPrev ==
    /\ TotalPages(totalExecutions) > 1
    /\ currentPage # 1
    /\ monLog' = MonEvent("page")
    /\ PageOrFiltersChanged(filters, Max(currentPage - 1, 1))

ClickNext ==
    /\ TotalPages(totalExecutions) > 1
    /\ currentPage # TotalPages(totalExecutions)
    /\ monLog' = MonEvent("page")
    /\ PageOrFiltersChanged(filters, Min(currentPage + 1, TotalPages(totalExecutions)))

handleFilterChangeKeepPage(key, value) ==
    /\ monLog' = MonEvent("filter")
    /\ PageOrFiltersChanged([filters EXCEPT ![key] = value], currentPage)

handleFilterChange(key, value) ==
    /\ monLog' = MonEvent("filter")
    /\ PageOrFiltersChanged([filters EXCEPT ![key] = value], 1)

ChangeFilter == \E v \in StatusChoices : handleFilterChange("status", v)

\* The auto-refresh switch: setAutoRefresh, then the polling effect
ToggleAutoRefresh ==
    /\ autoRefresh' = ~autoRefresh
    /\ timer' = RerunPollingEffect(timer, ~autoRefresh, now)
    /\ Rendered(executions)
    /\ monLog' = MonEvent("none") /\ toasts' = 0
    /\ UNCHANGED <<executions, totalExecutions, currentPage, filters, now, tasks,
                   pendingFetch>>

\* "Atualizar agora": loadExecutions and a notification
ManualRefresh ==
    /\ CanRequest(TasksRequest(filters, currentPage))
    /\ pendingFetch' = pendingFetch \cup {TasksRequest(filters, currentPage)}
    /\ NotifiedRender
    /\ monLog' = MonEvent("refresh") /\ toasts' = 1
    /\ UNCHANGED <<executions, totalExecutions, currentPage, filters, autoRefresh,
                   timer, now, tasks>>

handleShowDetails ==
    /\ executions # <<>>
    /\ Rendered(executions)
    /\ monLog' = MonEvent("none") /\ toasts' = 0
    /\ UNCHANGED <<executions, totalExecutions, currentPage, filters, autoRefresh,
                   timer, now, tasks, pendingFetch>>

\* A click on the download button of a row, which the last render left
\* enabled
handleDownload(execution) ==
    /\ isDownloadAvailable(execution, renderedAt)
    /\ IF ~isDownloadAvailable(execution, now)
         THEN /\ monLog' = DownloadEvent(execution, FALSE)
              /\ UNCHANGED pendingFetch
         ELSE /\ CanRequest(DownloadRequest(execution.requestId))
              /\ pendingFetch' = pendingFetch \cup {DownloadRequest(execution.requestId)}
              /\ monLog' = DownloadEvent(execution, TRUE)
    /\ toasts' = 0
    /\ UNCHANGED <<executions, totalExecutions, currentPage, filters, autoRefresh,
                   timer, now, tasks, renderedAt, countdown>>

ClickDownload == \E i \in 1..Len(executions) : handleDownload(executions[i])

\* loadExecutions applying a response only when it was computed with the
\* filters and the page that are current
ResolveFetchCurrentOnly ==
    \E r \in pendingFetch, ok \in BOOLEAN :
       /\ r.req = "tasks"
       /\ pendingFetch' = pendingFetch \ {r}
       /\ IF ok
            THEN LET out == fetchExecutions(tasks, r.filters, r.page, PageSize)
                     current == r.filters = filters /\ r.page = currentPage IN
                 /\ executions' = IF current THEN out.executions ELSE executions
                 /\ totalExecutions' = IF current THEN out.total ELSE totalExecutions
                 /\ Rendered(executions')
                 /\ toasts' = 0
            ELSE /\ UNCHANGED <<executions, totalExecutions>>
                 /\ NotifiedRender
                 /\ toasts' = 1
       /\ monLog' = MonEvent(IF ok THEN "response" ELSE "failed")
       /\ UNCHANGED <<currentPage, filters, autoRefresh, timer, now, tasks>>

ResolveFetchRetry ==
    \E r \in pendingFetch, ok \in BOOLEAN :
       /\ r.req = "tasks"
       /\ IF ok
            THEN LET out == fetchExecutions(tasks, r.filters, r.page, PageSize) IN
                 /\ executions' = out.executions
                 /\ totalExecutions' = out.total
                 /\ pendingFetch' = pendingFetch \ {r}
                 /\ Rendered(out.executions)
                 /\ toasts' = 0
            ELSE /\ UNCHANGED <<executions, totalExecutions, pendingFetch>>
                 /\ NotifiedRender
                 /\ toasts' = 1
       /\ monLog' = MonEvent(IF ok THEN "response" ELSE "failed")
       /\ UNCHANGED <<currentPage, filters, autoRefresh, timer, now, tasks>>

\* loadExecutions after its await: the response of a GET /tasks request, or
\* its failure (network error or non-2xx status)
ResolveFetch ==
    \E r \in pendingFetch, ok \in BOOLEAN :
       /\ r.req = "tasks"
       /\ pendingFetch' = pendingFetch \ {r}
       /\ IF ok
            THEN LET out == fetchExecutions(tasks, r.filters, r.page, PageSize) IN
                 /\ executions' = out.executions
                 /\ totalExecutions' = out.total
                 /\ Rendered(out.executions)
                 /\ toasts' = 0
            ELSE /\ UNCHANGED <<executions, totalExecutions>>
                 /\ NotifiedRender
                 /\ toasts' = 1
       /\ monLog' = MonEvent(IF ok THEN "response" ELSE "failed")
       /\ UNCHANGED <<currentPage, filters, autoRefresh, timer, now, tasks>>

\* handleDownload after its await: a notification either way
ResolveDownload ==
    \E r \in pendingFetch :
       /\ r.req = "download"
       /\ pendingFetch' = pendingFetch \ {r}
       /\ NotifiedRender
       /\ monLog' = MonEvent("downloaded") /\ toasts' = 1
       /\ UNCHANGED <<executions, totalExecutions, currentPage, filters, autoRefresh,
                      timer, now, tasks>>

\* The row's "Disponibilidade" cell and its download button, as the last
\* render and the CountdownTimer's last calculation left them
AvailabilityCell(execution) ==
    IF execution.status = "SUCCESS" /\ ~Falsy(execution.finishedAt)
    THEN IF isDownloadAvailable(execution, renderedAt)
         THEN calculateTimeLeft(getExpiryDate(execution.finishedAt), countdown[1])
         ELSE <<"Expirado">>
    ELSE <<"-">>

DownloadDisabled(execution) == ~isDownloadAvailable(execution, renderedAt)

InitMonitor == StoreIdle /\ PagesIdle /\ MonInit /\ FxIdle /\ PvIdle /\ FormIdle /\ MockIdle

NextMonitor ==
    \/ (Advance /\ UNCHANGED <<storeVars, pageVars, fxVars, pvVars, formVars, mockVars>>)
    \/ (ServerChange /\ UNCHANGED <<storeVars, pageVars, fxVars, pvVars, formVars, mockVars>>)
    \/ (TimerFire /\ UNCHANGED <<storeVars, pageVars, fxVars, pvVars, formVars, mockVars>>)
    \/ (CountdownTick /\ UNCHANGED <<storeVars, pageVars, fxVars, pvVars, formVars, mockVars>>)
    \/ (ClickPrev /\ UNCHANGED <<storeVars, pageVars, fxVars, pvVars, formVars, mockVars>>)
    \/ (ClickNext /\ UNCHANGED <<storeVars, pageVars, fxVars, pvVars, formVars, mockVars>>)
    \/ (ChangeFilter /\ UNCHANGED <<storeVars, pageVars, fxVars, pvVars, formVars, mockVars>>)
    \/ (ToggleAutoRefresh /\ UNCHANGED <<storeVars, pageVars, fxVars, pvVars, formVars, mockVars>>)
    \/ (ManualRefresh /\ UNCHANGED <<storeVars, pageVars, fxVars, pvVars, formVars, mockVars>>)
    \/ (handleShowDetails /\ UNCHANGED <<storeVars, pageVars, fxVars, pvVars, formVars, mockVars>>)
    \/ (ClickDownload /\ UNCHANGED <<storeVars, pageVars, fxVars, pvVars, formVars, mockVars>>)
    \/ (ResolveFetch /\ UNCHANGED <<storeVars, pageVars, fxVars, pvVars, formVars, mockVars>>)
    \/ (ResolveDownload /\ UNCHANGED <<storeVars, pageVars, fxVars, pvVars, formVars, mockVars>>)

SpecMonitor == InitMonitor /\ [][NextMonitor]_vars
(***************************************************************************)
(* Claims about the Execution Monitor.                                     *)
(***************************************************************************)
\* C7: in every reachable state of the monitor, whenever the total is
\* positive the current page p satisfies 1 <= p <= ceil(total / pageSize).
C7_PageWithinRange ==
    totalExecutions > 0 =>
        /\ 1 <= currentPage
        /\ currentPage * PageSize < totalExecutions + PageSize

\* The download rule as the documentation states it
C8_Rule(status, finishedAt, at) ==
    /\ status = "SUCCESS"
    /\ finishedAt.kind = "date"
    /\ at - finishedAt.t <= ThreeHours

\* C8: a task's output is downloadable (isDownloadAvailable is true, and
\* handleDownload issues the download request) if and only if its status is
\* SUCCESS, it has a finish time and now - finishedAt <= 3 hours at the
\* moment of the check; no download request is issued outside the rule.
C8_DownloadableIffRule ==
    /\ [](\A i \in 1..Len(executions) : \A at \in {now, renderedAt} :
             isDownloadAvailable(executions[i], at)
                <=> C8_Rule(executions[i].status, executions[i].finishedAt, at))
    /\ [](monLog.event = "download" =>
             (monLog.issued <=> C8_Rule(monLog.status, monLog.finishedAt, now)))
    /\ [][\A r \in pendingFetch' \ pendingFetch :
             r.req = "download" =>
                /\ monLog' = [monLog' EXCEPT !.event = "download", !.issued = TRUE,
                                              !.id = r.id]
                /\ now' = now]_vars

\* The download of a task finished 2h59m ago was requested, while the row of
\* the task finished 3h01m ago is shown as unavailable
C8_Witness ==
    /\ monLog.event = "download" /\ monLog.issued
    /\ now - monLog.finishedAt.t = ThreeHours - 60000
    /\ DownloadRequest(monLog.id) \in pendingFetch
    /\ \E i \in 1..Len(executions) :
          /\ executions[i].status = "SUCCESS"
          /\ now - executions[i].finishedAt.t = ThreeHours + 60000
          /\ ~isDownloadAvailable(executions[i], now)

\* C9: in every reachable state in which a displayed task has status
\* SUCCESS, a finish time, and the current time is more than 3 hours past
\* that finish time, the monitor reports the task as expired and its
\* download control is disabled.
C9_ExpiredReportedAndDisabled ==
    \A i \in 1..Len(executions) :
        (/\ executions[i].status = "SUCCESS"
         /\ executions[i].finishedAt.kind = "date"
         /\ now - executions[i].finishedAt.t > ThreeHours)
        => /\ AvailabilityCell(executions[i]) = <<"Expirado">>
           /\ DownloadDisabled(executions[i])

\* C10: while auto-refresh is enabled the interval is armed and due within
\* 10 seconds, and a fetch the timer initiates happens exactly when it is
\* due, 10 seconds before the next; while auto-refresh is off no interval is
\* armed and the timer initiates no fetch.
C10_PollingFollowsSwitch ==
    /\ [](autoRefresh <=> timer # <<>>)
    /\ [](timer # <<>> => (now <= timer[1] /\ timer[1] <= now + PollInterval))
    /\ [][monLog'.event = "timer" =>
             /\ autoRefresh /\ autoRefresh'
             /\ timer = <<now>>
             /\ timer' = <<now + PollInterval>>
             /\ TasksRequest(filters, currentPage) \in pendingFetch']_vars
    /\ [][~autoRefresh /\ ~autoRefresh' => monLog'.event # "timer"]_vars

\* The interval has fired 10 seconds after the page was opened and is armed
\* for 10 seconds later
C10_Witness ==
    /\ monLog.event = "timer" /\ autoRefresh
    /\ now = PollInterval /\ timer = <<2 * PollInterval>>
    /\ TasksRequest(filters, currentPage) \in pendingFetch

\* C11: every filter change sets the current page to 1; every filter or page
\* change initiates a fetch in the same step; that fetch and every fetch
\* the timer initiates carry the filters and the page that are current when
\* the fetch is initiated.
C11_FetchWithCurrentValues ==
    [][/\ (monLog'.event = "filter" \/ filters' # filters) =>
             /\ currentPage' = 1
             /\ TasksRequest(filters', 1) \in pendingFetch'
       /\ (currentPage' # currentPage \/ filters' # filters) =>
             /\ TasksRequest(filters', currentPage') \in pendingFetch'
             /\ now' = now
       /\ monLog'.event = "timer" =>
             /\ filters' = filters /\ currentPage' = currentPage
             /\ TasksRequest(filters, currentPage) \in pendingFetch'
       /\ \A r \in pendingFetch' \ pendingFetch :
             r.req = "tasks" => (r.filters = filters' /\ r.page = currentPage')]_vars

\* The status filter was set while page 2 of 12 tasks was shown: the page is
\* 1 and the fetch for the new filter and page 1 is in flight
C11_Witness ==
    /\ monLog.event = "filter" /\ filters.status = "SUCCESS" /\ currentPage = 1
    /\ totalExecutions = 12 /\ Len(executions) = 2
    /\ pendingFetch = {TasksRequest(filters, 1)}

\* C12: when a fetch of the task list fails, the displayed executions and
\* the total are left unchanged, exactly one notification is raised, the
\* request is not issued again, and the polling interval stays armed as it
\* was.
C12_FailedFetchLeavesState ==
    /\ [][monLog'.event = "failed" =>
             /\ executions' = executions /\ totalExecutions' = totalExecutions
             /\ filters' = filters /\ currentPage' = currentPage
             /\ toasts' = 1
             /\ pendingFetch' \subseteq pendingFetch
             /\ Cardinality(pendingFetch') = Cardinality(pendingFetch) - 1
             /\ timer' = timer /\ autoRefresh' = autoRefresh]_vars
    /\ [](monLog.event = "failed" /\ autoRefresh =>
             (timer # <<>> /\ timer[1] <= now + PollInterval))

\* A fetch failed while 12 tasks were shown with auto-refresh on
C12_Witness ==
    /\ monLog.event = "failed" /\ toasts = 1
    /\ totalExecutions = 12 /\ Len(executions) = 10
    /\ pendingFetch = {} /\ autoRefresh /\ timer # <<>>

(***************************************************************************)
(* JavaScript numbers and the conversions the execution form calls.        *)
(* Strings are sequences of characters.  A finite number is m * 10^e with  *)
(* m free of trailing zeros, so that equal numbers are equal records.      *)
(***************************************************************************)
NaN         == [kind |-> "nan", m |-> 0, e |-> 0]
Infinity    == [kind |-> "inf", m |-> 1, e |-> 0]
NegInfinity == [kind |-> "inf", m |-> 0 - 1, e |-> 0]

RECURSIVE Num(_, _)
Num(m, e) ==
    IF m = 0 THEN [kind |-> "num", m |-> 0, e |-> 0]
    ELSE IF m % 10 = 0 THEN Num(m \div 10, e + 1)
    ELSE [kind |-> "num", m |-> m, e |-> e]

DecDigits == <<"0", "1", "2", "3", "4", "5", "6", "7", "8", "9">>
HexDigits == DecDigits \o <<"a", "b", "c", "d", "e", "f">>

\* The value of digit c in the given digits, -1 when c is none of them
DigitValue(c, digits) ==
    IF \E k \in 1..Len(digits) : digits[k] = c
    THEN (CHOOSE k \in 1..Len(digits) : digits[k] = c) - 1
    ELSE 0 - 1

IsDigit(c, digits) == DigitValue(c, digits) >= 0

\* Characters of s from position i on
From(s, i) == SubSeq(s, i, Len(s))

StartsWith(s, prefix) ==
    Len(s) >= Len(prefix) /\ SubSeq(s, 1, Len(prefix)) = prefix

RECURSIVE TrimStart(_)
TrimStart(s) == IF s # <<>> /\ Head(s) = " " THEN TrimStart(Tail(s)) ELSE s

RECURSIVE TrimEnd(_)
TrimEnd(s) ==
    IF s # <<>> /\ s[Len(s)] = " " THEN TrimEnd(SubSeq(s, 1, Len(s) - 1)) ELSE s

\* String.prototype.trim
Trim(s) == TrimEnd(TrimStart(s))

\* Number of leading characters of s that are digits
RECURSIVE DigitRun(_, _)
DigitRun(s, digits) ==
    IF s # <<>> /\ IsDigit(Head(s), digits) THEN 1 + DigitRun(Tail(s), digits) ELSE 0

\* The number a string of digits denotes in the given radix
RECURSIVE DigitsValue(_, _)
DigitsValue(s, digits) ==
    IF s = <<>> THEN 0
    ELSE DigitsValue(SubSeq(s, 1, Len(s) - 1), digits) * Len(digits)
            + DigitValue(s[Len(s)], digits)

\* An optional sign: <<sign, rest>>
Signed(s) ==
    IF s # <<>> /\ Head(s) = "-" THEN <<0 - 1, Tail(s)>>
    ELSE IF s # <<>> /\ Head(s) = "+" THEN <<1, Tail(s)>>
    ELSE <<1, s>>

InfinityWord == <<"I", "n", "f", "i", "n", "i", "t", "y">>

RECURSIVE NumDigits(_)
NumDigits(m) == IF m < 10 THEN 1 ELSE 1 + NumDigits(m \div 10)

RECURSIVE Pow10(_)
Pow10(k) == IF k <= 0 THEN 1 ELSE 10 * Pow10(k - 1)

\* The double nearest to sign * m * 10^e, for m of at most nine digits:
\* beyond the largest double (1.7976931348623157e308) it is an infinity,
\* below half the smallest one (2.47e-324) it is zero.  The rounding of
\* subnormal numbers is not modelled.
Finite(sign, m, e) ==
    LET d     == NumDigits(m)
        exp10 == d + e - 1
        lead  == m * Pow10(9 - d)
    IN  IF m = 0 THEN Num(0, 0)
        ELSE IF exp10 > 308 \/ (exp10 = 308 /\ lead >= 179769314)
             THEN IF sign < 0 THEN NegInfinity ELSE Infinity
        ELSE IF exp10 < 0 - 324 THEN Num(0, 0)
        ELSE Num(sign * m, e)

\* The longest prefix of s that is an unsigned decimal literal
\* (digits, optional fraction, optional exponent)
DecimalPrefix(s) ==
    LET i        == DigitRun(s, DecDigits)
        afterInt == From(s, i + 1)
        hasDot   == afterInt # <<>> /\ Head(afterInt) = "."
        f        == IF hasDot THEN DigitRun(Tail(afterInt), DecDigits) ELSE 0
        dotLen   == IF hasDot /\ (i >= 1 \/ f >= 1) THEN 1 + f ELSE 0
        mantLen  == i + dotLen
        rest     == From(s, mantLen + 1)
        hasE     == rest # <<>> /\ Head(rest) \in {"e", "E"}
        sg       == IF hasE THEN Signed(Tail(rest)) ELSE <<1, <<>>>>
        x        == DigitRun(sg[2], DecDigits)
        expLen   == IF x >= 1 THEN 1 + (Len(rest) - 1 - Len(sg[2])) + x ELSE 0
        expVal   == IF x >= 1 THEN sg[1] * DigitsValue(SubSeq(sg[2], 1, x), DecDigits)
                    ELSE 0
        digits   == SubSeq(s, 1, i) \o (IF f >= 1 THEN SubSeq(s, i + 2, i + 1 + f) ELSE <<>>)
    IN  [ok  |-> i + f >= 1,
         len |-> mantLen + expLen,
         m   |-> DigitsValue(digits, DecDigits),
         e   |-> expVal - f]

IsHexLiteral(s) ==
    /\ StartsWith(s, <<"0", "x">>) \/ StartsWith(s, <<"0", "X">>)
    /\ Len(s) >= 3
    /\ DigitRun(From(s, 3), HexDigits) = Len(s) - 2

\* Number(value) for a string: the whole trimmed string must be a numeric
\* literal; the empty string is 0
ToNumber(s) ==
    LET t  == Trim(s)
        sg == Signed(t)
        d  == DecimalPrefix(sg[2])
    IN  IF t = <<>> THEN Num(0, 0)
        ELSE IF IsHexLiteral(t) THEN Num(DigitsValue(From(t, 3), HexDigits), 0)
        ELSE IF sg[2] = InfinityWord THEN (IF sg[1] < 0 THEN NegInfinity ELSE Infinity)
        ELSE IF d.ok /\ d.len = Len(sg[2]) THEN Finite(sg[1], d.m, d.e)
        ELSE NaN

\* Number.parseInt(value): the leading run of digits, radix 16 after 0x
parseInt(s) ==
    LET sg    == Signed(TrimStart(s))
        hex   == StartsWith(sg[2], <<"0", "x">>) \/ StartsWith(sg[2], <<"0", "X">>)
        body  == IF hex THEN From(sg[2], 3) ELSE sg[2]
        radix == IF hex THEN HexDigits ELSE DecDigits
        n     == DigitRun(body, radix)
    IN  IF n = 0 THEN NaN
        ELSE Num(sg[1] * DigitsValue(SubSeq(body, 1, n), radix), 0)

\* Number.parseFloat(value): the longest leading decimal literal
parseFloat(s) ==
    LET sg == Signed(TrimStart(s))
        d  == DecimalPrefix(sg[2])
    IN  IF StartsWith(sg[2], InfinityWord)
        THEN (IF sg[1] < 0 THEN NegInfinity ELSE Infinity)
        ELSE IF d.ok THEN Finite(sg[1], d.m, d.e)
        ELSE NaN

isNaN(v) == v.kind = "nan"

\* Number.isInteger(v)
IsInteger(v) == v.kind = "num" /\ v.e >= 0

(***************************************************************************)
(* JSON.parse over a sequence of characters.  A parsed value is kept as    *)
(* its kind and, for arrays and objects, its number of entries.  String    *)
(* escapes are not modelled.                                               *)
(***************************************************************************)
JsonValue(kind, len) == [kind |-> kind, len |-> len]
SyntaxError == JsonValue("error", 0)

\* The character at position i, "" past the end
At(s, i) == IF i >= 1 /\ i <= Len(s) THEN s[i] ELSE ""

RECURSIVE SkipWs(_, _)
SkipWs(s, i) == IF At(s, i) = " " THEN SkipWs(s, i + 1) ELSE i

Parsed(next, kind, len) == [ok |-> TRUE, next |-> next, kind |-> kind, len |-> len]
ParseFail == [ok |-> FALSE, next |-> 0, kind |-> "error", len |-> 0]

ParseLiteral(s, i, word, kind) ==
    IF StartsWith(From(s, i), word) THEN Parsed(i + Len(word), kind, 0) ELSE ParseFail

\* A string token: from the quote at i to the next quote
ParseString(s, i) ==
    IF \E j \in (i + 1)..Len(s) : s[j] = "\""
    THEN Parsed((CHOOSE j \in (i + 1)..Len(s) :
                    s[j] = "\"" /\ \A k \in (i + 1)..(j - 1) : s[k] # "\"") + 1,
                "string", 0)
    ELSE ParseFail

\* A number token: -? int frac? exp?, no leading zeros
ParseNumber(s, i) ==
    LET start  == IF At(s, i) = "-" THEN i + 1 ELSE i
        n      == DigitRun(From(s, start), DecDigits)
        intOk  == n >= 1 /\ (n = 1 \/ At(s, start) # "0")
        dot    == start + n
        hasDot == At(s, dot) = "."
        f      == IF hasDot THEN DigitRun(From(s, dot + 1), DecDigits) ELSE 0
        ex     == IF hasDot THEN dot + 1 + f ELSE dot
        hasE   == At(s, ex) \in {"e", "E"}
        sgn    == IF hasE /\ At(s, ex + 1) \in {"+", "-"} THEN 1 ELSE 0
        x      == IF hasE THEN DigitRun(From(s, ex + 1 + sgn), DecDigits) ELSE 0
    IN  IF intOk /\ (hasDot => f >= 1) /\ (hasE => x >= 1)
        THEN Parsed(IF hasE THEN ex + 1 + sgn + x ELSE ex, "number", 0)
        ELSE ParseFail

RECURSIVE ParseValue(_, _)
RECURSIVE ParseElements(_, _, _)
RECURSIVE ParseMembers(_, _, _)

\* The elements of an array from position i, count of them read so far
ParseElements(s, i, count) ==
    LET j == SkipWs(s, i)
        v == ParseValue(s, j)
        k == SkipWs(s, v.next)
    IN  IF count = 0 /\ At(s, j) = "]" THEN Parsed(j + 1, "array", 0)
        ELSE IF ~v.ok THEN ParseFail
        ELSE IF At(s, k) = "," THEN ParseElements(s, k + 1, count + 1)
        ELSE IF At(s, k) = "]" THEN Parsed(k + 1, "array", count + 1)
        ELSE ParseFail

\* The members of an object from position i, count of them read so far
ParseMembers(s, i, count) ==
    LET j     == SkipWs(s, i)
        key   == IF At(s, j) = "\"" THEN ParseString(s, j) ELSE ParseFail
        colon == SkipWs(s, key.next)
        v     == ParseValue(s, SkipWs(s, colon + 1))
        k     == SkipWs(s, v.next)
    IN  IF count = 0 /\ At(s, j) = "}" THEN Parsed(j + 1, "object", 0)
        ELSE IF ~key.ok \/ At(s, colon) # ":" THEN ParseFail
        ELSE IF ~v.ok THEN ParseFail
        ELSE IF At(s, k) = "," THEN ParseMembers(s, k + 1, count + 1)
        ELSE IF At(s, k) = "}" THEN Parsed(k + 1, "object", count + 1)
        ELSE ParseFail

ParseValue(s, i) ==
    LET c == At(s, i)
    IN  IF c = "[" THEN ParseElements(s, i + 1, 0)
        ELSE IF c = "{" THEN ParseMembers(s, i + 1, 0)
        ELSE IF c = "\"" THEN ParseString(s, i)
        ELSE IF c = "n" THEN ParseLiteral(s, i, <<"n", "u", "l", "l">>, "null")
        ELSE IF c = "t" THEN ParseLiteral(s, i, <<"t", "r", "u", "e">>, "boolean")
        ELSE IF c = "f" THEN ParseLiteral(s, i, <<"f", "a", "l", "s", "e">>, "boolean")
        ELSE IF c = "-" \/ IsDigit(c, DecDigits) THEN ParseNumber(s, i)
        ELSE ParseFail

\* JSON.parse(value): the parsed value, or SyntaxError when it throws
JSONParse(s) ==
    LET v == ParseValue(s, SkipWs(s, 1))
    IN  IF v.ok /\ SkipWs(s, v.next) = Len(s) + 1
        THEN JsonValue(v.kind, v.len)
        ELSE SyntaxError

\* Array.isArray(parsed)
IsArray(v) == v.kind = "array"

\* typeof parsed === "object": arrays, objects and null
TypeofObject(v) == v.kind \in {"array", "object", "null"}

(***************************************************************************)
(* ExecutionForm: validation and coercion of one parameter value.          *)
(* An entry of the values map is <<>> (undefined) or <<string>>.           *)
(***************************************************************************)
ParamTypes == {"string", "int", "number", "float", "list", "dict"}

NoError        == ""
RequiredError  == "Valor é obrigatório"
IntegerError   == "Valor deve ser um número inteiro"
NumberError    == "Valor deve ser um número"
ListError      == "Valor deve ser um array JSON válido"
DictError      == "Valor deve ser um objeto JSON válido"

\* The switch of validateParameterValue with a dict check that lets arrays
\* and null pass
checkParameterValueAnyObject(type, number, parsed) ==
    CASE type = "int" ->
            IF ~IsInteger(number) THEN IntegerError ELSE NoError
      [] type \in {"number", "float"} ->
            IF isNaN(number) THEN NumberError ELSE NoError
      [] type = "list" ->
            IF parsed = SyntaxError \/ ~IsArray(parsed) THEN ListError ELSE NoError
      [] type = "dict" ->
            IF parsed = SyntaxError \/ ~TypeofObject(parsed) THEN DictError ELSE NoError
      [] OTHER -> NoError

\* The switch of validateParameterValue on param.type, given Number(value)
\* and JSON.parse(value): the message of the error thrown, NoError when none
checkParameterValue(type, number, parsed) ==
    CASE type = "int" ->
            IF ~IsInteger(number) THEN IntegerError ELSE NoError
      [] type \in {"number", "float"} ->
            IF isNaN(number) THEN NumberError ELSE NoError
      [] type = "list" ->
            IF parsed = SyntaxError \/ ~IsArray(parsed) THEN ListError ELSE NoError
      [] type = "dict" ->
            IF \/ parsed = SyntaxError
               \/ ~TypeofObject(parsed)
               \/ parsed.kind = "null"
               \/ IsArray(parsed)
            THEN DictError ELSE NoError
      [] OTHER -> NoError

\* validateParameterValue(param, value): the message of the error it throws,
\* NoError when it returns
validateParameterValue(type, value) ==
    checkParameterValue(type, ToNumber(value), JSONParse(value))

\* validateValues for one parameter, requiring only that the entry is defined
validateEntryDefinedOnly(type, entry) ==
    IF entry = <<>> THEN RequiredError
    ELSE validateParameterValue(type, entry[1])

\* The body of validateValues for one parameter: the error recorded for it
validateEntry(type, entry) ==
    IF entry = <<>> \/ entry[1] = <<>> THEN RequiredError
    ELSE validateParameterValue(type, entry[1])

Coerced(kind, v) == [kind |-> kind, v |-> v]

\* The body of processValues for one parameter with a defined value
processValue(type, value) ==
    CASE type = "int"                -> Coerced("number", parseInt(value))
      [] type \in {"number", "float"} -> Coerced("number", parseFloat(value))
      [] type \in {"list", "dict"}    -> Coerced("json", JSONParse(value))
      [] OTHER                        -> Coerced("string", value)

(***************************************************************************)
(* Validation and coercion as functions: a parameter type and an entry are *)
(* chosen, then validated and, when accepted, coerced.                     *)
(***************************************************************************)
MaxRaw == 4     \* characters in a raw numeric value

NumChars == {"0", "1", "9", ".", "e", "-", " ", "x"}

Strings(chars, n) == UNION {[1..k -> chars] : k \in 0..n}

SpecialNumerals ==
    {<<"I", "n", "f", "i", "n", "i", "t", "y">>,
     <<"-", "I", "n", "f", "i", "n", "i", "t", "y">>,
     <<"1", "e", "9", "9", "9">>,
     <<"-", "1", "e", "9", "9", "9">>,
     <<"1", ".", "8", "e", "3", "0", "8">>,
     <<"0", "x", "1", "f">>,
     <<"+", "1", "e", "+", "1">>}

JsonTexts ==
    {<<"[", "1", ",", "2", ",", "3", "]">>,
     <<"{", "}">>,
     <<"{", "\"", "a", "\"", ":", "1", "}">>,
     <<"[", "1", ",", "2", "]">>,
     <<"[", "]">>,
     <<"n", "u", "l", "l">>,
     <<"1", "2">>,
     <<"\"", "a", "\"">>,
     <<"[", "1", ",">>,
     <<"{", "a", ":", "1", "}">>,
     <<"a", "b", "c">>,
     <<"[", "1", " ", "2", "]">>,
     <<" ", "[", " ", "1", " ", ",", " ", "2", " ", "]", " ">>,
     <<"[", "[", "1", "]", ",", "{", "}", "]">>,
     <<"{", "\"", "a", "\"", ":", "[", "1", "]", ",", "\"", "b", "\"", ":", "2", "}">>,
     <<"t", "r", "u", "e">>,
     <<"[", "1", ",", "]">>,
     <<"{", "\"", "a", "\"", ":", "1", ",", "}">>,
     <<"[", "0", "1", "]">>,
     <<"[", "-", "1", ".", "5", "e", "2", "]">>,
     <<"{", "\"", "a", "\"", "}">>,
     <<" ">>}

PlainTexts ==
    {<<"a", "b", "c">>,
     <<" ">>,
     <<"4", "2">>}

ValidationInputs ==
    ({"int", "number", "float"} \X {<<s>> : s \in Strings(NumChars, MaxRaw) \cup SpecialNumerals})
    \cup ({"list", "dict"} \X {<<s>> : s \in JsonTexts \cup {<<>>}})
    \cup ({"string"} \X {<<s>> : s \in PlainTexts \cup {<<>>}})
    \cup (ParamTypes \X {<<>>})

PvInit ==
    /\ \E input \in ValidationInputs : pvType = input[1] /\ pvEntry = input[2]
    /\ pvOut = <<>>

\* One parameter through validateValues and, if it is accepted, processValues
PvValidate ==
    /\ pvOut = <<>>
    /\ pvOut' = <<[error  |-> validateEntry(pvType, pvEntry),
                   values |-> IF validateEntry(pvType, pvEntry) = NoError
                              THEN <<processValue(pvType, pvEntry[1])>>
                              ELSE <<>>]>>
    /\ UNCHANGED <<pvType, pvEntry>>

InitValidate == StoreIdle /\ PagesIdle /\ MonIdle /\ FxIdle /\ PvInit /\ FormIdle /\ MockIdle

NextValidate ==
    PvValidate /\ UNCHANGED <<storeVars, pageVars, monVars, fxVars, formVars, mockVars>>

SpecValidate == InitValidate /\ [][NextValidate]_vars

PvAccepted == pvOut # <<>> /\ pvOut[1].error = NoError
PvRejected == pvOut # <<>> /\ pvOut[1].error # NoError
PvSubmitted == pvOut[1].values[1].v

\* C13: a value accepted for an int parameter is submitted as the integer
\* that validation recognised in it, and a rejected one is not an integer.
C13_IntCoercedAsValidated ==
    pvType = "int" =>
        /\ PvAccepted => (IsInteger(PvSubmitted) /\ PvSubmitted = ToNumber(pvEntry[1]))
        /\ (PvRejected /\ pvEntry # <<>> /\ pvEntry[1] # <<>>) =>
              ~IsInteger(ToNumber(pvEntry[1]))

\* C14: a value accepted for a number or float parameter parses to a finite
\* number, and that finite number is the value submitted.
C14_FiniteAndCoercedAsValidated ==
    (pvType \in {"number", "float"} /\ PvAccepted) =>
        /\ ToNumber(pvEntry[1]).kind = "num"
        /\ PvSubmitted = ToNumber(pvEntry[1])

\* C15: a list value is accepted iff it parses as JSON to an array, a dict
\* value iff it parses as JSON to an object that is neither null nor an
\* array; text that is not JSON is rejected for both.
C15_JsonShapeMatchesType ==
    (pvOut # <<>> /\ pvEntry # <<>> /\ pvEntry[1] # <<>>) =>
        LET parsed == JSONParse(pvEntry[1])
        IN  /\ pvType = "list" => (PvAccepted <=> parsed.kind = "array")
            /\ pvType = "dict" => (PvAccepted <=> parsed.kind = "object")
            /\ (pvType \in {"list", "dict"} /\ parsed = SyntaxError) => PvRejected
            /\ (pvType = "list" /\ PvAccepted) =>
                  pvOut[1].values = <<Coerced("json", parsed)>>

C15_Witness ==
    /\ pvType = "list" /\ pvEntry = <<<<"[", "1", ",", "2", ",", "3", "]">>>>
    /\ PvAccepted /\ PvSubmitted = JsonValue("array", 3)

\* C16: whatever its type, a parameter whose entry is undefined or the empty
\* string gets the 'required' error, not the error of its type check, and
\* nothing is submitted for it; a string parameter with a non-empty value is
\* accepted as it is.
C16_RequiredBeforeTypeCheck ==
    pvOut # <<>> =>
        /\ (pvEntry = <<>> \/ pvEntry[1] = <<>>) =>
              (pvOut[1].error = RequiredError /\ pvOut[1].values = <<>>)
        /\ (pvType = "string" /\ pvEntry # <<>> /\ pvEntry[1] # <<>>) =>
              (PvAccepted /\ pvOut[1].values = <<Coerced("string", pvEntry[1])>>)

C16_Witness ==
    /\ pvType = "int" /\ pvEntry = <<<<>>>>
    /\ validateParameterValue("int", <<>>) = NoError
    /\ pvOut # <<>> /\ pvOut[1].error = RequiredError

(***************************************************************************)
(* NewPipeline and EditPipelineModal: validateForm.  The fields of these   *)
(* forms are strings; CharAt reads one character of a string.              *)
(***************************************************************************)
CharAt(s, i) == SubSeq(s, i, i)

\* !s.trim(): nothing but white space
Blank(s) == \A i \in 1..Len(s) : CharAt(s, i) = " "

Letters ==
    {"a", "b", "c", "d", "e", "f", "g", "h", "i", "j", "k", "l", "m", "n", "o", "p", "q", "r", "s", "t", "u", "v", "w", "x", "y", "z",
     "A", "B", "C", "D", "E", "F", "G", "H", "I", "J", "K", "L", "M", "N", "O", "P", "Q", "R", "S", "T", "U", "V", "W", "X", "Y", "Z"}

KeyFirstChars == Letters \cup {"_"}
KeyChars      == KeyFirstChars \cup {DecDigits[i] : i \in 1..Len(DecDigits)}

\* keyRegex.test(key): /^[a-zA-Z_][a-zA-Z0-9_]*$/
KeyRegexTest(key) ==
    /\ Len(key) >= 1
    /\ CharAt(key, 1) \in KeyFirstChars
    /\ \A i \in 2..Len(key) : CharAt(key, i) \in KeyChars

\* NameError refusing the boundary lengths
NameErrorExclusive(name) ==
    IF Blank(name) THEN "Nome é obrigatório"
    ELSE IF Len(name) <= 3 THEN "Nome deve ter pelo menos 3 caracteres"
    ELSE IF Len(name) >= 60 THEN "Nome deve ter no máximo 60 caracteres"
    ELSE NoError

NameError(name) ==
    IF Blank(name) THEN "Nome é obrigatório"
    ELSE IF Len(name) < 3 THEN "Nome deve ter pelo menos 3 caracteres"
    ELSE IF Len(name) > 60 THEN "Nome deve ter no máximo 60 caracteres"
    ELSE NoError

DescriptionError(description) ==
    IF Len(description) > 255 THEN "Descrição deve ter no máximo 255 caracteres"
    ELSE NoError

\* KeyError reporting a repeated key at each of its occurrences
KeyErrorEveryOccurrence(parameters, i) ==
    LET key == parameters[i].key
    IN  IF Blank(key) THEN "Chave é obrigatória"
        ELSE IF ~KeyRegexTest(key)
             THEN "Chave deve começar com letra ou _ e conter apenas letras, números e _"
        ELSE IF \E j \in 1..Len(parameters) : j # i /\ parameters[j].key = key
             THEN "Chave deve ser única"
        ELSE NoError

\* The error of the parameter at position i; a key is in uniqueKeys when an
\* earlier parameter holds it, for that one passed the first two checks too
KeyError(parameters, i) ==
    LET key == parameters[i].key
    IN  IF Blank(key) THEN "Chave é obrigatória"
        ELSE IF ~KeyRegexTest(key)
             THEN "Chave deve começar com letra ou _ e conter apenas letras, números e _"
        ELSE IF \E j \in 1..(i - 1) : parameters[j].key = key THEN "Chave deve ser única"
        ELSE NoError

\* `param_${index}_key`
ParamField(i) == "param_" \o DecDigits[i] \o "_key"

FormFields(form) ==
    {"name", "description"} \cup {ParamField(i) : i \in 1..Len(form.parameters)}

FieldError(form, field) ==
    IF field = "name" THEN NameError(form.name)
    ELSE IF field = "description" THEN DescriptionError(form.description)
    ELSE KeyError(form.parameters,
                  CHOOSE i \in 1..Len(form.parameters) : ParamField(i) = field)

\* validateForm: newErrors, the message by field for the fields in error
validateForm(form) ==
    [field \in {f \in FormFields(form) : FieldError(form, f) # NoError} |->
        FieldError(form, field)]

(***************************************************************************)
(* ExecutePipeline and ExecutionForm.  ExecutionForm is rendered without a *)
(* key, so its state outlives a change of the selected pipeline.           *)
(***************************************************************************)
\* values[key]: <<>> for undefined
Entry(vals, key) == IF key \in DOMAIN vals THEN <<vals[key]>> ELSE <<>>

\* The largest of a non-empty set of positions
Last(positions) == CHOOSE i \in positions : \A j \in positions : j <= i

\* The parameters of a pipeline in order, each with the error validateValues
\* finds for it
Checked(ps, vals) ==
    {[i |-> i, key |-> ps[i].key,
      error |-> validateEntry(ps[i].type, Entry(vals, ps[i].key))] : i \in 1..Len(ps)}

\* newErrors as validateValues fills it from the parameters in error
ErrorsByKey(failed) ==
    [key \in {c.key : c \in failed} |->
        (CHOOSE c \in failed :
            /\ c.key = key
            /\ \A d \in failed : d.key = key => d.i <= c.i).error]

\* validateValues: newErrors.  A later parameter with the same key overwrites
\* the error of an earlier one.
validateValues(pipeline, vals) ==
    ErrorsByKey({c \in Checked(pipeline.parameters, vals) : c.error # NoError})

\* processValues sending every value the form holds
processValuesAll(pipeline, vals) ==
    [key \in DOMAIN vals |-> Coerced("string", vals[key])]

\* processValues: processedValues, of the declared parameters whose value is
\* defined
processValues(pipeline, vals) ==
    LET ps      == pipeline.parameters
        Defined == {i \in 1..Len(ps) : ps[i].key \in DOMAIN vals}
    IN  [key \in {ps[i].key : i \in Defined} |->
            processValue(ps[Last({i \in Defined : ps[i].key = key})].type, vals[key])]

\* pipelines.find((p) => p.id === selectedPipelineId): <<>> or <<pipeline>>
selectedPipeline ==
    IF selectedPipelineId = <<>> THEN <<>>
    ELSE LET Is(p) == p.id = selectedPipelineId[1]
         IN  SubSeq(SelectSeq(pipelines, Is), 1, 1)

\* ExecutionForm is on screen
FormShown ==
    /\ route = "execute"
    /\ selectedPipeline # <<>>
    /\ Len(selectedPipeline[1].parameters) > 0

\* The body handleExecutePipeline posts to /submit
Payload(pipeline, parameters) ==
    [tasks |-> <<[notebook_name |-> pipeline.name, version |-> "1",
                  params |-> parameters]>>]

SubmitRequest(pipeline, parameters) ==
    [notebook |-> pipeline.name, body |-> <<Payload(pipeline, parameters)>>]

\* A response to POST /submit: no response at all ("network"), or a status
\* with a body that is JSON or not, that holds request_ids or not, and whose
\* detail is absent, a list of {msg} or a string
SubmitResponse(status, json, ids, detail, msg) ==
    [status |-> status, json |-> json, request_ids |-> ids, detail |-> detail,
     msg |-> msg]

SubmitResponses ==
    {SubmitResponse("network", FALSE, <<>>, "absent", ""),
     SubmitResponse("ok", TRUE, <<<<"r1", "r2">>>>, "absent", ""),
     SubmitResponse("ok", TRUE, <<>>, "absent", ""),
     SubmitResponse("ok", FALSE, <<>>, "absent", ""),
     SubmitResponse("error", TRUE, <<>>, "list", "field required"),
     SubmitResponse("error", TRUE, <<>>, "list", ""),
     SubmitResponse("error", TRUE, <<>>, "string", "Notebook not found"),
     SubmitResponse("error", TRUE, <<>>, "absent", ""),
     SubmitResponse("error", FALSE, <<>>, "absent", "")}

ExecutionResult(success, message, logs) ==
    [success |-> success, message |-> message, logs |-> logs]

UnknownError    == "Erro desconhecido ao enviar pipeline."
UnexpectedError == "Erro inesperado na execução"

\* responseData?.detail?.[0]?.msg || "Erro desconhecido ao enviar pipeline.":
\* the first element of a string is a character, which has no msg
ErrorMessage(response) ==
    IF response.detail = "list" /\ response.msg # "" THEN response.msg
    ELSE UnknownError

\* A line of the log trail: its text and the data interpolated into it
LogLine(line, with) == [line |-> line, with |-> with]

\* The catch block of handleExecutePipeline
CaughtResult ==
    ExecutionResult(FALSE, UnexpectedError,
                    <<LogLine("[ERROR] Exceção ao tentar enviar pipeline", <<>>),
                      LogLine("[ERROR] ${error.message}", <<>>)>>)

\* What handleExecutePipeline returns once the request is settled: fetch
\* rejecting, response.json() throwing and request_ids.join throwing all end
\* in the catch block
SubmitResult(request, response) ==
    IF response.status = "network" \/ ~response.json THEN CaughtResult
    ELSE IF response.status # "ok"
    THEN ExecutionResult(FALSE, ErrorMessage(response),
            <<LogLine("[ERROR] Falha na execução do pipeline", <<request.notebook>>),
              LogLine("[ERROR] Detalhes:", <<ErrorMessage(response)>>)>>)
    ELSE IF response.request_ids = <<>> THEN CaughtResult
    ELSE ExecutionResult(TRUE, "Pipeline enfileirado com sucesso",
            <<LogLine("[INFO] Pipeline enviado para execução.", <<request.notebook>>),
              LogLine("[INFO] Parâmetros:", <<request.body[1].tasks[1].params>>),
              LogLine("[INFO] Request IDs:", response.request_ids[1])>>)

(***************************************************************************)
(* The forms as a state machine: one of the three pages is open, the       *)
(* catalog is loaded, and the user works on the page's form.               *)
(***************************************************************************)
\* Raw values the user types into a field of the execution form
FormValues ==
    {<<>>, <<"4", "2">>, <<"a", "b", "c">>, <<"[", "1", ",", "2", "]">>}

FormServer ==
    <<[ServerPipeline("p1", "etl") EXCEPT
          !.parameters = <<ServerParam("rows", "int"), ServerParam("tags", "list")>>],
      [ServerPipeline("p2", "mlp") EXCEPT
          !.parameters = <<ServerParam("rows", "string")>>]>>

RECURSIVE Repeat(_, _)
Repeat(c, n) ==
    IF n = 0 THEN ""
    ELSE LET half == Repeat(c, n \div 2)
         IN  IF n % 2 = 0 THEN half \o half ELSE half \o half \o c

FormParam(key, type) == [key |-> key, type |-> type, value |-> NullV]

\* What the user has typed into NewPipeline or EditPipelineModal
PipelineForm(name, description, parameters) ==
    [name |-> name, description |-> description, parameters |-> parameters]

ValidForms ==
    {PipelineForm("abc", "", <<FormParam("rows", "int")>>),
     PipelineForm(Repeat("n", 60), Repeat("d", 255),
                  <<FormParam("_r1", "int"), FormParam("rows", "list")>>)}

\* Keys typed for the parameters of one form: repeated, malformed at a later
\* position, blank or malformed twice
KeyLists ==
    {<<"rows", "rows", "rows">>, <<"rows", "_r1", "rows">>, <<"rows", "r 1">>,
     <<" ", " ">>, <<"1r", "1r">>, <<"r1", "r1 ">>}

\* What the user has typed into NewPipeline or EditPipelineModal: a valid
\* form, one with a single field changed, or one with the keys of a list
PipelineForms ==
    ValidForms
    \cup {[form EXCEPT !.name = name] :
            form \in ValidForms, name \in {"", "   ", "ab", Repeat("n", 61)}}
    \cup {[form EXCEPT !.description = Repeat("d", 256)] : form \in ValidForms}
    \cup {[form EXCEPT !.parameters[1].key = key] :
            form \in ValidForms, key \in {"", " ", "1r", "r-1", "rows"}}
    \cup {PipelineForm("abc", "", [i \in 1..Len(keys) |-> FormParam(keys[i], "int")]) :
            keys \in KeyLists}

FormInit ==
    /\ route \in {"execute", "new-pipeline", "my-pipelines"}
    /\ \E n \in 1..Len(FormServer) :
          /\ server = SubSeq(FormServer, 1, n)
          /\ pipelines = [i \in 1..n |-> MapServerPipeline(FormServer[i])]
    /\ storage = Stringify(pipelines)
    /\ updates = <<>> /\ effects = <<>> /\ crashed = FALSE /\ writeThrew = FALSE
    /\ console = {} /\ preReload = <<>>
    /\ apiCalls = 0 /\ pendingGet = {} /\ selected = <<>>
    /\ FormIdle

\* PipelineSelector.onSelect: setSelectedPipelineId(pipeline.id)
SelectPipeline ==
    /\ Alive /\ route = "execute"
    /\ \E i \in 1..Len(pipelines) : selectedPipelineId' = <<pipelines[i].id>>
    /\ formLog' = FormEvent("select", TRUE, NoForm, NoRequest, NoResponse)
    /\ UNCHANGED <<storeVars, pageVars, values, errors, isExecuting, result,
                   pendingSubmit, formErrors>>

\* ExecutionForm.handleValueChange(key, value)
handleValueChange(key, value) ==
    /\ values' = [k \in DOMAIN values \cup {key} |-> IF k = key THEN value ELSE values[k]]
    /\ errors' = [k \in DOMAIN errors \ {key} |-> errors[k]]
    /\ formLog' = FormEvent("change", TRUE, NoForm, NoRequest, NoResponse)
    /\ UNCHANGED <<storeVars, pageVars, selectedPipelineId, isExecuting, result,
                   pendingSubmit, formErrors>>

ChangeValue ==
    /\ Alive /\ FormShown
    /\ \E i \in 1..Len(selectedPipeline[1].parameters), value \in FormValues :
          handleValueChange(selectedPipeline[1].parameters[i].key, value)

\* handleExecute given the errors validateValues found and the request
\* handleExecutePipeline would send
Execute(found, request) ==
    /\ errors' = found
    /\ IF found # <<>>
       THEN /\ formLog' = FormEvent("execute", FALSE, NoForm, NoRequest, NoResponse)
            /\ UNCHANGED <<isExecuting, result, pendingSubmit>>
       ELSE /\ isExecuting' = TRUE
            /\ result' = <<>>
            /\ pendingSubmit' = Append(pendingSubmit, request)
            /\ formLog' = FormEvent("execute", TRUE, NoForm, request, NoResponse)
    /\ UNCHANGED <<storeVars, pageVars, selectedPipelineId, values, formErrors>>

\* ExecutionForm.handleExecute up to its await, with handleExecutePipeline up
\* to the fetch; the button is disabled while isExecuting
handleExecute ==
    Execute(validateValues(selectedPipeline[1], values),
            SubmitRequest(selectedPipeline[1], processValues(selectedPipeline[1], values)))

ClickExecute == Alive /\ FormShown /\ ~isExecuting /\ handleExecute

\* handleExecute clearing isExecuting after a successful result only
ResolveSubmitNoFinally ==
    /\ Alive /\ pendingSubmit # <<>>
    /\ \E response \in SubmitResponses :
          /\ result' = <<SubmitResult(Head(pendingSubmit), response)>>
          /\ formLog' = FormEvent("response", TRUE, NoForm, Head(pendingSubmit), response)
          /\ isExecuting' = ~SubmitResult(Head(pendingSubmit), response).success
    /\ pendingSubmit' = Tail(pendingSubmit)
    /\ UNCHANGED <<storeVars, pageVars, selectedPipelineId, values, errors, formErrors>>

\* The request settles: handleExecutePipeline returns its result (raising a
\* toast) and handleExecute stores it and clears isExecuting
ResolveSubmit ==
    /\ Alive /\ pendingSubmit # <<>>
    /\ \E response \in SubmitResponses :
          /\ result' = <<SubmitResult(Head(pendingSubmit), response)>>
          /\ formLog' = FormEvent("response", TRUE, NoForm, Head(pendingSubmit), response)
    /\ pendingSubmit' = Tail(pendingSubmit)
    /\ isExecuting' = FALSE
    /\ UNCHANGED <<storeVars, pageVars, selectedPipelineId, values, errors, formErrors>>

\* NewPipeline.handleSubmit with the form as typed: validateForm, then POST
\* /pipelines; on success toast, resetForm and router.push("/my-pipelines"),
\* whose mount fetches the list
handleSubmit(form) ==
    LET newErrors == validateForm(form)
    IN  /\ formLog' = FormEvent("submit", newErrors = <<>>, form, NoRequest, NoResponse)
        /\ IF newErrors # <<>>
           THEN /\ formErrors' = newErrors
                /\ UNCHANGED <<storeVars, pageVars>>
           ELSE /\ formErrors' = <<>>
                /\ apiCalls + 2 <= MaxApiCalls
                /\ \E ok \in BOOLEAN :
                      IF ok /\ Len(server) < MaxServer
                      THEN \E id \in PipelineIds \ ServerIds :
                              /\ server' = Append(server,
                                    [id |-> id, name |-> form.name,
                                     description |-> form.description,
                                     created_at |-> IsoV(1),
                                     parameters |-> [i \in 1..Len(form.parameters) |->
                                        ServerParam(form.parameters[i].key,
                                                    form.parameters[i].type)]])
                              /\ apiCalls' = apiCalls + 2
                              /\ GetPipelines(server')
                              /\ route' = "my-pipelines"
                      ELSE /\ apiCalls' = apiCalls + 1
                           /\ UNCHANGED <<server, pendingGet, route>>
                /\ UNCHANGED <<storeVars, selected>>

\* EditPipelineModal.handleSave with the form as typed: validateForm, then
\* updatePipeline, toast and onClose
handleSaveUnchecked(form) ==
    /\ formErrors' = validateForm(form)
    /\ formLog' = FormEvent("save", validateForm(form) = <<>>, form, NoRequest, NoResponse)
    /\ updatePipeline([selected[1] EXCEPT
          !.name = form.name, !.description = form.description,
          !.parameters = [i \in 1..Len(form.parameters) |-> NullValue(form.parameters[i])]])
    /\ UNCHANGED <<server, apiCalls, pendingGet, route, selected>>

handleSave(form) ==
    LET newErrors == validateForm(form)
    IN  /\ formLog' = FormEvent("save", newErrors = <<>>, form, NoRequest, NoResponse)
        /\ IF newErrors # <<>>
           THEN /\ formErrors' = newErrors
                /\ UNCHANGED <<storeVars, pageVars>>
           ELSE /\ formErrors' = <<>>
                /\ updatePipeline([selected[1] EXCEPT
                      !.name = form.name, !.description = form.description,
                      !.parameters = [i \in 1..Len(form.parameters) |->
                                         NullValue(form.parameters[i])]])
                /\ selected' = <<>>
                /\ UNCHANGED <<server, apiCalls, pendingGet, route>>

ExecutionFormVars == <<selectedPipelineId, values, errors, isExecuting, result,
                       pendingSubmit>>

SubmitForm ==
    /\ Alive /\ Mounted /\ route = "new-pipeline"
    /\ \E form \in PipelineForms : handleSubmit(form)
    /\ UNCHANGED ExecutionFormVars

SaveForm ==
    /\ Alive /\ Mounted /\ route = "my-pipelines" /\ selected # <<>>
    /\ \E form \in PipelineForms : handleSave(form)
    /\ UNCHANGED ExecutionFormVars

\* A step of the store or of MyPipelines, which no form takes part in
Elsewhere(step) ==
    /\ step
    /\ formLog' = Quiet
    /\ UNCHANGED <<ExecutionFormVars, formErrors>>

InitForm == FormInit /\ MonIdle /\ FxIdle /\ PvIdle /\ MockIdle

NextForm ==
    \/ (Elsewhere(FlushEffects /\ UNCHANGED pageVars) /\ UNCHANGED <<monVars, fxVars, pvVars, mockVars>>)
    \/ (Elsewhere(Render /\ UNCHANGED pageVars) /\ UNCHANGED <<monVars, fxVars, pvVars, mockVars>>)
    \/ (Elsewhere(ResolveGet) /\ UNCHANGED <<monVars, fxVars, pvVars, mockVars>>)
    \/ (Elsewhere(HandlePipelineClick) /\ UNCHANGED <<monVars, fxVars, pvVars, mockVars>>)
    \/ (SelectPipeline /\ UNCHANGED <<monVars, fxVars, pvVars, mockVars>>)
    \/ (ChangeValue /\ UNCHANGED <<monVars, fxVars, pvVars, mockVars>>)
    \/ (ClickExecute /\ UNCHANGED <<monVars, fxVars, pvVars, mockVars>>)
    \/ (ResolveSubmit /\ UNCHANGED <<monVars, fxVars, pvVars, mockVars>>)
    \/ (SubmitForm /\ UNCHANGED <<monVars, fxVars, pvVars, mockVars>>)
    \/ (SaveForm /\ UNCHANGED <<monVars, fxVars, pvVars, mockVars>>)

SpecForm == InitForm /\ [][NextForm]_vars

\* The keys of the selected pipeline's parameters whose value fails validation
OffendingKeys ==
    LET ps == selectedPipeline[1].parameters
    IN  {ps[i].key : i \in {j \in 1..Len(ps) :
            validateEntry(ps[j].type, Entry(values, ps[j].key)) # NoError}}

\* The fields of a pipeline form that fail validation
OffendingFields(form) == {f \in FormFields(form) : FieldError(form, f) # NoError}

\* C17: an attempt to submit the execution form, the new-pipeline form or the
\* edit-pipeline form while validation reports an error issues no POST
\* /submit and no POST /pipelines, updates nothing in the catalog, and leaves
\* an error recorded for exactly the offending fields.
C17_InvalidFormBlocked ==
    [][/\ formLog'.event = "execute" =>
             /\ formLog'.valid = (OffendingKeys = {})
             /\ DOMAIN errors' = OffendingKeys
       /\ formLog'.event \in {"submit", "save"} =>
             /\ formLog'.valid = (OffendingFields(formLog'.form) = {})
             /\ DOMAIN formErrors' = OffendingFields(formLog'.form)
       /\ (formLog'.event \in {"execute", "submit", "save"} /\ ~formLog'.valid) =>
             /\ pendingSubmit' = pendingSubmit
             /\ apiCalls' = apiCalls /\ server' = server /\ pendingGet' = pendingGet
             /\ pipelines' = pipelines /\ updates' = updates /\ storage' = storage
             /\ selected' = selected /\ route' = route /\ isExecuting' = isExecuting]_vars

C17_Witness ==
    /\ formLog.event = "save" /\ ~formLog.valid /\ formLog.form.name = "ab"
    /\ DOMAIN formErrors = {"name"}
    /\ selected # <<>> /\ updates = <<>> /\ pipelines[1].name = "etl"

\* C18: an execution whose values pass validation issues exactly one POST
\* /submit; its body holds one task, named after the selected pipeline, with
\* version "1" and with params holding the coerced value of each parameter
\* the pipeline declares and no other key.  No other step issues a POST
\* /submit.
C18_OneTaskWithDeclaredParams ==
    [][/\ (formLog'.event = "execute" /\ formLog'.valid) =>
             LET pipeline == selectedPipeline[1]
                 ps       == pipeline.parameters
                 body     == formLog'.request.body[1]
                 task     == body.tasks[1]
             IN  /\ pendingSubmit' = Append(pendingSubmit, formLog'.request)
                 /\ Len(formLog'.request.body) = 1 /\ Len(body.tasks) = 1
                 /\ task.notebook_name = pipeline.name
                 /\ task.version = "1"
                 /\ DOMAIN task.params = {ps[i].key : i \in 1..Len(ps)}
                 /\ \A i \in 1..Len(ps) :
                       task.params[ps[i].key] = processValue(ps[i].type, values[ps[i].key])
       /\ ~(formLog'.event = "execute" /\ formLog'.valid) =>
             Len(pendingSubmit') <= Len(pendingSubmit)]_vars

\* Values typed for one pipeline are still in the form when the other one is
\* executed
C18_Witness ==
    /\ formLog.event = "execute" /\ formLog.valid
    /\ selectedPipelineId = <<"p2">> /\ DOMAIN values = {"rows", "tags"}
    /\ pendingSubmit = <<formLog.request>>
    /\ DOMAIN formLog.request.body[1].tasks[1].params = {"rows"}
    /\ formLog.request.body[1].tasks[1].notebook_name = "mlp"

\* C19: whatever the outcome of a submission, the form receives a result
\* with a log trail; a success reports the request ids the API returned; a
\* network error or a non-2xx response, whatever its body, gives success =
\* false with the server's error detail as the message when the body holds
\* one, and a generic message otherwise.
C19_OutcomeReported ==
    [][formLog'.event = "response" =>
          LET response == formLog'.response
              res      == result'[1]
          IN  /\ result' # <<>>
              /\ Len(res.logs) >= 1
              /\ (response.status = "ok" /\ response.json /\ response.request_ids # <<>>) =>
                    /\ res.success
                    /\ \E i \in 1..Len(res.logs) :
                          res.logs[i] = LogLine("[INFO] Request IDs:", response.request_ids[1])
              /\ response.status # "ok" =>
                    /\ ~res.success
                    /\ IF response.detail # "absent" /\ response.msg # ""
                       THEN res.message = response.msg
                       ELSE res.message \in {UnknownError, UnexpectedError}]_vars

\* The positions of the catalog that hold a pipeline with the given id
PositionsOf(catalog, id) == {i \in 1..Len(catalog) : catalog[i].id = id}

\* C20: when the store commits an update(p), the catalog keeps its length and
\* order, the entries with p's id are p and every other entry is as before,
\* so that an absent id changes nothing; when it commits a remove(id), the
\* entries with another id remain, in order, and no other entry does.
C20_UpdateAndRemoveById ==
    [][(effects = <<>> /\ effects' = <<"save">> /\ Len(updates) = 1) =>
          LET u == updates[1]
          IN  /\ u.op = "update" =>
                    /\ Len(pipelines') = Len(pipelines)
                    /\ \A i \in 1..Len(pipelines) :
                          pipelines'[i] = IF i \in PositionsOf(pipelines, u.p.id)
                                          THEN u.p ELSE pipelines[i]
                    /\ PositionsOf(pipelines, u.p.id) = {} => pipelines' = pipelines
              /\ u.op = "delete" =>
                    /\ PositionsOf(pipelines', u.p.id) = {}
                    /\ Len(pipelines') =
                          Len(pipelines) - Cardinality(PositionsOf(pipelines, u.p.id))
                    /\ \A i \in 1..Len(pipelines') :
                          \E j \in i..Len(pipelines) :
                             /\ pipelines'[i] = pipelines[j]
                             /\ Cardinality(PositionsOf(pipelines, u.p.id) \cap 1..j) = j - i]_vars

\* Both entries of a catalog held the id of the update that was committed
C20_Witness ==
    /\ Len(pipelines) = 2 /\ effects = <<"save">>
    /\ pipelines[1] = pipelines[2] /\ pipelines[1].name = "ml"

\* The position of the last setPipelines call in a queue of updates, 0 if none
LastSet(us) ==
    IF \E i \in 1..Len(us) : us[i].op = "set"
    THEN CHOOSE i \in 1..Len(us) :
            /\ us[i].op = "set"
            /\ \A j \in 1..Len(us) : us[j].op = "set" => j <= i
    ELSE 0

\* C21: when the store commits a render whose queue holds replaceAll(list),
\* the catalog is the list of the last such call with only the updates queued
\* after it applied: nothing of the catalog held before, and nothing queued
\* before that call, remains (so with the call last in the queue the catalog
\* is the list exactly); the write that follows the commit, when it does not
\* throw, stores the serialization of that catalog.
C21_ReplaceAllOverwrites ==
    /\ [][(effects = <<>> /\ effects' = <<"save">> /\ LastSet(updates) > 0) =>
             pipelines' = ApplyAll(SubSeq(updates, LastSet(updates) + 1, Len(updates)),
                                   updates[LastSet(updates)].list)]_vars
    /\ [][(effects = <<"save">> /\ effects' = <<>> /\ ~crashed') =>
             storage' = Stringify(pipelines)]_vars

\* A fetched list has replaced a catalog that held another entry, which the
\* snapshot still shows
C21_Witness ==
    /\ Alive /\ effects = <<"save">>
    /\ pipelines = <<StoreShape("p2", "etl"), StoreShape("p1", "ml")>>
    /\ storage = Stringify(<<DeclaredShape("p1", "etl")>>)

\* Every key of a parameter list matches the pattern and none occurs twice
KeysWellFormed(ps) ==
    /\ \A i \in 1..Len(ps) : KeyRegexTest(ps[i].key)
    /\ \A i, j \in 1..Len(ps) : ps[i].key = ps[j].key => i = j

C23_LengthAloneDecides ==
    [][formLog'.event \in {"submit", "save"} =>
          /\ ("name" \in DOMAIN formErrors') <=>
                (Len(formLog'.form.name) < 3 \/ Len(formLog'.form.name) > 60)
          /\ ("description" \in DOMAIN formErrors') <=>
                Len(formLog'.form.description) > 255]_vars

\* C23 as amended: validateForm refuses a name exactly when it holds nothing
\* but white space or its length is below 3 or above 60 (so lengths 3 and 60
\* pass for a name that is not blank), and a description exactly when it is
\* longer than 255.
C23_LengthAndBlankDecide ==
    [][formLog'.event \in {"submit", "save"} =>
          /\ ("name" \in DOMAIN formErrors') <=>
                \/ Blank(formLog'.form.name)
                \/ Len(formLog'.form.name) < 3
                \/ Len(formLog'.form.name) > 60
          /\ ("description" \in DOMAIN formErrors') <=>
                Len(formLog'.form.description) > 255]_vars

\* A name of three spaces was refused as missing
C23_Witness ==
    /\ formLog.event = "submit" /\ ~formLog.valid
    /\ Len(formLog.form.name) = 3 /\ Blank(formLog.form.name)
    /\ DOMAIN formErrors = {"name"} /\ formErrors["name"] = "Nome é obrigatório"

\* A GET /pipelines that failed has been handled by fetchPipelines
C24_GetFailedStep == Mounted' /\ \E r \in pendingGet \ pendingGet' : ~r.ok

\* A POST /pipelines that failed has been handled by handleSubmit
C24_PostFailedStep ==
    /\ route = "new-pipeline" /\ route' = route
    /\ apiCalls' = apiCalls + 1 /\ server' = server

\* C24, for the calls of the pipeline pages: a GET /pipelines or POST
\* /pipelines that fails raises a notification, leaves the catalog, the
\* page and the modal as they were and issues no further request.
C24_FailureNotifiedAndAborted ==
    [][(C24_GetFailedStep \/ C24_PostFailedStep) =>
          /\ toasts' > 0
          /\ apiCalls' <= apiCalls + 1
          /\ pendingGet' \subseteq pendingGet
          /\ UNCHANGED <<pipelines, updates, storage, route, selected>>]_vars

\* The same without the notification of a failed GET /pipelines
C24_PostFailureNotifiedAndAborted ==
    [][(C24_GetFailedStep \/ C24_PostFailedStep) =>
          /\ C24_PostFailedStep => toasts' > 0
          /\ apiCalls' <= apiCalls + 1
          /\ pendingGet' \subseteq pendingGet
          /\ UNCHANGED <<pipelines, updates, storage, route, selected>>]_vars

(***************************************************************************)
(* The Execution Monitor from the moment two fetches of the task list      *)
(* overlap: the page as NextMonitor drives it, started with two requests   *)
(* in flight.                                                              *)
(***************************************************************************)
\* The status filter is set while the fetch of the mount is in flight
FilterDuringMountFetch ==
    /\ executions = <<>> /\ totalExecutions = 0 /\ currentPage = 1
    /\ filters = [NoFilter EXCEPT !.status = "SUCCESS"] /\ autoRefresh = TRUE
    /\ now = 0
    /\ tasks \in TaskLists
    /\ pendingFetch = {TasksRequest(NoFilter, 1), TasksRequest(filters, 1)}
    /\ timer = PollingEffect(TRUE, 0)
    /\ renderedAt = 0 /\ countdown = CountdownAfterRender(<<>>, 0)
    /\ monLog = MonEvent("filter") /\ toasts = 0

\* The first page of 12 tasks is shown, "Atualizar agora" is clicked and,
\* with that fetch in flight, the next page is asked for
PageDuringRefresh ==
    /\ tasks = TaskList(12)
    /\ executions = fetchExecutions(tasks, NoFilter, 1, PageSize).executions
    /\ totalExecutions = fetchExecutions(tasks, NoFilter, 1, PageSize).total
    /\ currentPage = 2 /\ filters = NoFilter /\ autoRefresh = TRUE
    /\ now = 0
    /\ pendingFetch = {TasksRequest(NoFilter, 1), TasksRequest(NoFilter, 2)}
    /\ timer = PollingEffect(TRUE, 0)
    /\ renderedAt = 0 /\ countdown = CountdownAfterRender(executions, 0)
    /\ monLog = MonEvent("page") /\ toasts = 0

InitOverlap ==
    /\ StoreIdle /\ PagesIdle /\ FxIdle /\ PvIdle /\ FormIdle /\ MockIdle
    /\ (FilterDuringMountFetch \/ PageDuringRefresh)

SpecOverlap == InitOverlap /\ [][NextMonitor]_vars

OnMonitor(step) == route = "monitor" /\ step

\* React unmounts the page: the cleanups of the polling effect and of the
\* CountdownTimers run and the component's state is dropped; fetches in
\* flight are not cancelled
UnmountMonitor ==
    /\ route = "monitor" /\ route' = "home"
    /\ timer' = PollingCleanup(timer)
    /\ countdown' = <<>>
    /\ executions' = <<>> /\ totalExecutions' = 0 /\ currentPage' = 1
    /\ filters' = NoFilter /\ autoRefresh' = TRUE
    /\ monLog' = MonEvent("unmount") /\ toasts' = 0
    /\ UNCHANGED <<now, tasks, pendingFetch, renderedAt>>
    /\ UNCHANGED <<server, apiCalls, pendingGet, selected>>

\* The page is opened again: a new instance renders and runs its two effects
MountMonitor ==
    /\ route = "home" /\ route' = "monitor"
    /\ CanRequest(TasksRequest(NoFilter, 1))
    /\ executions' = <<>> /\ totalExecutions' = 0 /\ currentPage' = 1
    /\ filters' = NoFilter /\ autoRefresh' = TRUE
    /\ pendingFetch' = pendingFetch \cup {TasksRequest(NoFilter, 1)}
    /\ timer' = timer \o PollingEffect(TRUE, now)
    /\ renderedAt' = now /\ countdown' = <<>>
    /\ monLog' = MonEvent("mount") /\ toasts' = 0
    /\ UNCHANGED <<now, tasks>>
    /\ UNCHANGED <<server, apiCalls, pendingGet, selected>>

\* A request of an instance that is gone settles: its state updates are
\* dropped, its notification is raised all the same
ResolveUnmounted ==
    /\ route # "monitor"
    /\ \E r \in pendingFetch, ok \in BOOLEAN :
          /\ pendingFetch' = pendingFetch \ {r}
          /\ toasts' = IF r.req = "tasks" /\ ok THEN 0 ELSE 1
    /\ monLog' = MonEvent("dropped")
    /\ UNCHANGED <<executions, totalExecutions, currentPage, filters, autoRefresh,
                   timer, now, tasks, renderedAt, countdown>>
    /\ UNCHANGED pageVars

InitTeardown ==
    /\ StoreIdle /\ MonInit /\ FxIdle /\ PvIdle /\ FormIdle /\ MockIdle
    /\ server = <<>> /\ apiCalls = 0 /\ pendingGet = {} /\ route = "monitor"
    /\ selected = <<>>

NextTeardown ==
    \/ (Advance /\ UNCHANGED <<storeVars, pageVars, fxVars, pvVars, formVars, mockVars>>)
    \/ (ServerChange /\ UNCHANGED <<storeVars, pageVars, fxVars, pvVars, formVars, mockVars>>)
    \/ (TimerFire /\ UNCHANGED <<storeVars, pageVars, fxVars, pvVars, formVars, mockVars>>)
    \/ (CountdownTick /\ UNCHANGED <<storeVars, pageVars, fxVars, pvVars, formVars, mockVars>>)
    \/ (OnMonitor(ClickPrev) /\ UNCHANGED <<storeVars, pageVars, fxVars, pvVars, formVars, mockVars>>)
    \/ (OnMonitor(ClickNext) /\ UNCHANGED <<storeVars, pageVars, fxVars, pvVars, formVars, mockVars>>)
    \/ (OnMonitor(ChangeFilter) /\ UNCHANGED <<storeVars, pageVars, fxVars, pvVars, formVars, mockVars>>)
    \/ (OnMonitor(ToggleAutoRefresh) /\ UNCHANGED <<storeVars, pageVars, fxVars, pvVars, formVars, mockVars>>)
    \/ (OnMonitor(ManualRefresh) /\ UNCHANGED <<storeVars, pageVars, fxVars, pvVars, formVars, mockVars>>)
    \/ (OnMonitor(handleShowDetails) /\ UNCHANGED <<storeVars, pageVars, fxVars, pvVars, formVars, mockVars>>)
    \/ (OnMonitor(ClickDownload) /\ UNCHANGED <<storeVars, pageVars, fxVars, pvVars, formVars, mockVars>>)
    \/ (OnMonitor(ResolveFetch) /\ UNCHANGED <<storeVars, pageVars, fxVars, pvVars, formVars, mockVars>>)
    \/ (OnMonitor(ResolveDownload) /\ UNCHANGED <<storeVars, pageVars, fxVars, pvVars, formVars, mockVars>>)
    \/ (UnmountMonitor /\ UNCHANGED <<storeVars, fxVars, pvVars, formVars, mockVars>>)
    \/ (MountMonitor /\ UNCHANGED <<storeVars, fxVars, pvVars, formVars, mockVars>>)
    \/ (ResolveUnmounted /\ UNCHANGED <<storeVars, fxVars, pvVars, formVars, mockVars>>)

SpecTeardown == InitTeardown /\ [][NextTeardown]_vars

\* C26: at most one polling interval is live at any time, through every
\* change of auto-refresh, filters and page and every remount; once the page
\* is unmounted no polling interval is live, no interval fires and no fetch
\* is initiated until it is mounted again.
C26_OnePollingTimerUntilTeardown ==
    /\ [](Len(timer) <= 1)
    /\ [](route # "monitor" => timer = <<>>)
    /\ [][monLog'.event = "timer" => (route = "monitor" /\ route' = "monitor")]_vars
    /\ [][(route # "monitor" /\ route' # "monitor") =>
             pendingFetch' \subseteq pendingFetch]_vars

\* The page was left a second after it was opened, with its first fetch
\* still in flight: its interval is gone
C26_Witness ==
    /\ monLog.event = "unmount" /\ route = "home" /\ now = 1000
    /\ timer = <<>> /\ pendingFetch = {TasksRequest(NoFilter, 1)}

(***************************************************************************)
(* lib/mock-data: the mock execution simulator.  A date is <<>> (null) or  *)
(* <<time>>; the logs of an execution are counted; Math.random() and       *)
(* uuidv4() are choices.                                                   *)
(***************************************************************************)
MaxMock     == 3    \* executions the mock list may hold
MaxMockNow  == 2    \* the clock of the simulator
MaxMockLogs == 8    \* log entries of a mock execution

\* type ExecutionStatus
ExecutionStatus == {"PENDING", "STARTED", "SUCCESS", "FAILURE"}

\* randomStatus()
randomStatus == {"PENDING", "RUNNING", "SUCCESS", "FAILURE"}

\* generateLogs(status).length
generateLogs(status) ==
    CASE status = "RUNNING"                -> 5
      [] status \in {"SUCCESS", "FAILURE"} -> 8
      [] OTHER                             -> 4

\* One element of generateMockExecutions: startedAt and finishedAt are
\* drawn after createdAt, in the week before the module was loaded
generateMockExecution(id, status) ==
    [requestId  |-> id,
     status     |-> status,
     startedAt  |-> IF status # "PENDING" THEN <<0>> ELSE <<>>,
     finishedAt |-> IF status # "PENDING" /\ status \in {"SUCCESS", "FAILURE"}
                    THEN <<0>> ELSE <<>>,
     logs       |-> generateLogs(status)]

\* The outcomes of Math.random() that updateMockExecutions tells apart for
\* one execution: rand < 0.2, with the second draw below 0.8 or not (it is
\* made in that branch only), 0.2 <= rand < 0.5, or rand >= 0.5
Rolls ==
    {[rand |-> "<0.2", success |-> ok] : ok \in BOOLEAN}
    \cup {[rand |-> r, success |-> FALSE] : r \in {"<0.5", ">=0.5"}}

\* The map callback of updateMockExecutions without its test of the status
updateOneAnyStatus(exec, roll, at) ==
    IF roll.rand = "<0.2"
    THEN IF exec.status = "PENDING"
         THEN [exec EXCEPT !.status = "RUNNING", !.startedAt = <<at>>,
                           !.logs = @ + 1]
         ELSE [exec EXCEPT !.status = IF roll.success THEN "SUCCESS" ELSE "FAILURE",
                           !.finishedAt = <<at>>,
                           !.logs = generateLogs(IF roll.success THEN "SUCCESS" ELSE "FAILURE")]
    ELSE IF exec.status = "RUNNING" /\ roll.rand = "<0.5"
         THEN [exec EXCEPT !.logs = @ + 1]
         ELSE exec

\* The map callback of updateMockExecutions
updateOne(exec, roll, at) ==
    IF exec.status = "PENDING" \/ exec.status = "RUNNING"
    THEN IF roll.rand = "<0.2"
         THEN IF exec.status = "PENDING"
              THEN [exec EXCEPT !.status = "RUNNING", !.startedAt = <<at>>,
                                !.logs = @ + 1]
              ELSE [exec EXCEPT !.status = IF roll.success THEN "SUCCESS" ELSE "FAILURE",
                                !.finishedAt = <<at>>,
                                !.logs = generateLogs(IF roll.success THEN "SUCCESS"
                                                      ELSE "FAILURE")]
         ELSE IF exec.status = "RUNNING" /\ roll.rand = "<0.5"
              THEN [exec EXCEPT !.logs = @ + 1]
              ELSE exec
    ELSE exec

\* let mockExecutions = generateMockExecutions(50), with fewer elements
MockInit ==
    /\ \E n \in 0..(MaxMock - 1) :
          \E statuses \in [1..n -> randomStatus] :
             mockExecutions = [i \in 1..n |-> generateMockExecution(i, statuses[i])]
    /\ mockNow = 0

\* updateMockExecutions(): every execution through the callback, then
\* possibly a new execution in front
updateMockExecutions ==
    \E rolls \in [1..Len(mockExecutions) -> Rolls], add \in BOOLEAN :
       LET updated == [i \in 1..Len(mockExecutions) |->
                          updateOne(mockExecutions[i], rolls[i], mockNow)]
       IN  /\ \A i \in 1..Len(updated) : updated[i].logs <= MaxMockLogs
           /\ IF add
              THEN /\ Len(mockExecutions) < MaxMock
                   /\ \E status \in randomStatus :
                         mockExecutions' =
                            <<generateMockExecution(Len(mockExecutions) + 1, status)>>
                            \o updated
              ELSE mockExecutions' = updated
           /\ UNCHANGED mockNow

\* Time passes
MockTick ==
    /\ mockNow < MaxMockNow
    /\ mockNow' = mockNow + 1
    /\ UNCHANGED mockExecutions

InitMock ==
    /\ StoreIdle /\ PagesIdle /\ MonIdle /\ FxIdle /\ PvIdle /\ FormIdle /\ MockInit

NextMock ==
    \/ (updateMockExecutions /\ UNCHANGED <<storeVars, pageVars, monVars, fxVars, pvVars, formVars>>)
    \/ (MockTick /\ UNCHANGED <<storeVars, pageVars, monVars, fxVars, pvVars, formVars>>)

SpecMock == InitMock /\ [][NextMock]_vars

\* C27: every status value the client produces is one of the declared
\* ExecutionStatus values, and no step of the client changes the status or
\* another field of an execution record.
C27_NoTransitionLogic ==
    /\ [](\A i \in 1..Len(mockExecutions) : mockExecutions[i].status \in ExecutionStatus)
    /\ [][\A i \in 1..Len(mockExecutions) :
             \E j \in 1..Len(mockExecutions') : mockExecutions'[j] = mockExecutions[i]]_vars

\* The execution of the list after a step that had the given id before it
MockAfter(id) ==
    CHOOSE e \in {mockExecutions'[j] : j \in 1..Len(mockExecutions')} : e.requestId = id

\* C30: through any number of updateMockExecutions steps every execution
\* stays in the list; one in SUCCESS or FAILURE keeps its status and its
\* finish time; a status changes only from PENDING to RUNNING or from
\* RUNNING to SUCCESS or FAILURE; startedAt is set exactly when the status
\* is not PENDING and finishedAt exactly when it is SUCCESS or FAILURE.
C30_MockLifecycle ==
    /\ [][\A i \in 1..Len(mockExecutions) :
             LET before == mockExecutions[i]
                 after  == MockAfter(before.requestId)
             IN  /\ \E j \in 1..Len(mockExecutions') :
                       mockExecutions'[j].requestId = before.requestId
                 /\ before.status \in {"SUCCESS", "FAILURE"} =>
                       /\ after.status = before.status
                       /\ after.finishedAt = before.finishedAt
                 /\ after.status # before.status =>
                       <<before.status, after.status>> \in
                          {<<"PENDING", "RUNNING">>, <<"RUNNING", "SUCCESS">>,
                           <<"RUNNING", "FAILURE">>}]_vars
    /\ [](\A i \in 1..Len(mockExecutions) :
            /\ (mockExecutions[i].startedAt # <<>>) <=>
                  (mockExecutions[i].status # "PENDING")
            /\ (mockExecutions[i].finishedAt # <<>>) <=>
                  (mockExecutions[i].status \in {"SUCCESS", "FAILURE"}))

\* An execution generated PENDING was started at 1 and finished at 2, next
\* to one that was generated finished and kept its finish time
C30_Witness ==
    /\ mockNow = 2
    /\ \E i, j \in 1..Len(mockExecutions) :
          /\ mockExecutions[i].status = "SUCCESS"
          /\ mockExecutions[i].startedAt = <<1>> /\ mockExecutions[i].finishedAt = <<2>>
          /\ mockExecutions[j].status = "FAILURE"
          /\ mockExecutions[j].finishedAt = <<0>>

\* The execution form with requests that settle: fetch resolves or rejects,
\* so a POST /submit in flight is eventually answered
SpecFormLive ==
    SpecForm /\ WF_vars(ResolveSubmit /\ UNCHANGED <<monVars, fxVars, pvVars, mockVars>>)

\* C28: at most one POST /submit of the form is in flight; isExecuting is
\* true exactly while one is; handleExecute runs only while it is false and,
\* when validation passes, sets it and clears the result; the outcome of the
\* request, whatever it is, clears it and records exactly one result; and a
\* form that is executing eventually is not, unless the page is torn down.
C28_OneSubmissionInFlight ==
    /\ [](Len(pendingSubmit) <= 1)
    /\ [](isExecuting <=> pendingSubmit # <<>>)
    /\ [][formLog'.event = "execute" =>
             /\ ~isExecuting
             /\ isExecuting' = formLog'.valid
             /\ formLog'.valid => result' = <<>>]_vars
    /\ [][(isExecuting /\ ~isExecuting') =>
             /\ formLog'.event = "response"
             /\ result = <<>> /\ Len(result') = 1
             /\ pendingSubmit' = <<>>]_vars
    /\ [][result' # result => (formLog'.event = "response" \/ result' = <<>>)]_vars
    /\ (isExecuting ~> (~isExecuting \/ crashed))

\* A submission ended in a failure result and the form can execute again
C28_Witness ==
    /\ formLog.event = "response" /\ ~isExecuting /\ pendingSubmit = <<>>
    /\ Len(result) = 1 /\ ~result[1].success

(***************************************************************************)
(* The provider under a repeated mount of its effects: React's development *)
(* build with StrictMode (the default of the Next.js app router) runs the   *)
(* effects of a mounting component, and then runs them once more, before   *)
(* the queued state updates are rendered.                                  *)
(***************************************************************************)
\* The load effect and the save effect, in declaration order, twice
StrictMount == <<"load", "save", "load", "save">>

InitStrict ==
    /\ pipelines = <<>> /\ updates = <<>> /\ effects = StrictMount
    /\ storage \in InitialStorage
    /\ crashed = FALSE /\ writeThrew = FALSE /\ console = {} /\ preReload = <<>>
    /\ PagesIdle /\ MonIdle /\ FxIdle /\ PvIdle /\ FormIdle /\ MockIdle

\* The browser reloads the page and the fresh provider mounts its effects twice
Remount ==
    /\ pipelines' = <<>>
    /\ updates' = <<>>
    /\ effects' = StrictMount
    /\ crashed' = FALSE
    /\ writeThrew' = FALSE
    /\ console' = {}
    /\ preReload' = IF Quiescent THEN <<pipelines>> ELSE <<>>
    /\ UNCHANGED storage

NextStrict ==
    \/ (FlushEffects /\ UNCHANGED <<pageVars, monVars, fxVars, pvVars, formVars, mockVars>>)
    \/ (Render /\ UNCHANGED <<pageVars, monVars, fxVars, pvVars, formVars, mockVars>>)
    \/ (CallAdd /\ UNCHANGED <<pageVars, monVars, fxVars, pvVars, formVars, mockVars>>)
    \/ (CallUpdate /\ UNCHANGED <<pageVars, monVars, fxVars, pvVars, formVars, mockVars>>)
    \/ (CallDelete /\ UNCHANGED <<pageVars, monVars, fxVars, pvVars, formVars, mockVars>>)
    \/ (CallSet /\ UNCHANGED <<pageVars, monVars, fxVars, pvVars, formVars, mockVars>>)
    \/ (Remount /\ UNCHANGED <<pageVars, monVars, fxVars, pvVars, formVars, mockVars>>)

SpecStrict == InitStrict /\ [][NextStrict]_vars

IdsIn(list) == {list[i].id : i \in 1..Len(list)}

\* The provider mounted over the snapshot of the catalog in preReload, no
\* consumer has changed the catalog since, and the effects and the renders
\* the mount triggered have all run without a failed write
SettledAfterMount == preReload # <<>> /\ Quiescent

\* C29: when the provider mounts over a parseable snapshot S, then once the
\* load step and the save steps it triggers have all run, the in-memory
\* catalog and the persisted snapshot both hold the pipelines of S (read in
\* the weakest way: the same ids), also when the effects are mounted twice.
C29_SnapshotSurvivesMount ==
    SettledAfterMount =>
        /\ IdsIn(pipelines) = IdsIn(preReload[1])
        /\ storage.kind = "list"
        /\ IdsIn(storage.list) = IdsIn(preReload[1])

\* A mount over a snapshot with an entry has settled
C29_Reached == SettledAfterMount /\ preReload[1] # <<>>
====
